---- MODULE Spec2Model ----
(***************************************************************************)
(* A model of the PDF password-resolution engine of mail_PDF_scraper       *)
(* (src/utils/pdf_handler.py, class PdfHandler).                           *)
(*                                                                         *)
(* Python strings are sequences of one-character strings, so that strip,   *)
(* replace, slicing, the digit filter and the regular expressions of       *)
(* _extract_password_format are computed character by character.           *)
(* The Python value None of an Optional[str] and the empty string are both *)
(* the empty sequence <<>>: the code only ever tests them with `not x` /   *)
(* `if x`, which does not tell them apart.                                 *)
(***************************************************************************)
EXTENDS Integers, Sequences, FiniteSets, TLC

VARIABLES
    group_passwords,    \* PdfHandler.group_passwords
    pc,                 \* "idle", "called" (process_pdf running), "returned"
    call,               \* the arguments of the call of process_pdf in flight
    ret,                \* the last return of process_pdf, with its arguments
    prior,              \* history: the call that preceded the last reset
    cached_by_success,  \* history: the groups whose entry a successful call stored
    gv,                 \* a call of _generate_variants_from_format and its return
    fwp,                \* a call of find_working_password and its return
    second,             \* the return of a repeated call of process_pdf
    batch,              \* a call of process_pdf_batch: its arguments, its locals
    threads             \* two calls of process_pdf that run interleaved

\* the variables of the calls made beside process_pdf
beside == <<gv, fwp, second>>

\* the variables of the application's batch and of the interleaved calls
flows == <<batch, threads>>

vars ==
    <<group_passwords, pc, call, ret, prior, cached_by_success, gv, fwp,
      second, batch, threads>>

(***************************************************************************)
(* Bounds of the model.                                                    *)
(***************************************************************************)
\* The longest password pool a caller passes.
MaxPoolLen == 2

(***************************************************************************)
(* Characters and the str methods the handler uses.                        *)
(***************************************************************************)
Digits == {"0", "1", "2", "3", "4", "5", "6", "7", "8", "9"}

LowerLetters ==
    {"a", "b", "c", "d", "e", "f", "g", "h", "i", "j", "k", "l", "m",
     "n", "o", "p", "q", "r", "s", "t", "u", "v", "w", "x", "y", "z"}

UpperLetters == {"D", "O", "B", "L", "P", "F"}

\* str.isdigit on one character
IsDigit(c) == c \in Digits

\* the class \w of the re module
IsWordChar(c) == c \in Digits \cup LowerLetters \cup UpperLetters \cup {"_"}

\* str.lower on one character
LowerChar(c) ==
    CASE c = "D" -> "d"
      [] c = "O" -> "o"
      [] c = "B" -> "b"
      [] c = "L" -> "l"
      [] c = "P" -> "p"
      [] c = "F" -> "f"
      [] OTHER -> c

\* str.lower()
Lower(s) == [i \in 1..Len(s) |-> LowerChar(s[i])]

\* ''.join(filter(pred, s)) for the two predicates the code filters with
RECURSIVE FilterDigits(_)
FilterDigits(s) ==
    IF s = <<>> THEN <<>>
    ELSE IF IsDigit(Head(s)) THEN <<Head(s)>> \o FilterDigits(Tail(s))
         ELSE FilterDigits(Tail(s))

\* s.replace(c, "")
RECURSIVE RemoveChar(_, _)
RemoveChar(s, c) ==
    IF s = <<>> THEN <<>>
    ELSE IF Head(s) = c THEN RemoveChar(Tail(s), c)
         ELSE <<Head(s)>> \o RemoveChar(Tail(s), c)

IsSpace(c) == c \in {" ", "\t", "\n"}

\* s.strip()
Strip(s) ==
    LET keep == {i \in 1..Len(s) : ~IsSpace(s[i])}
    IN  IF keep = {} THEN <<>>
        ELSE LET lo == CHOOSE i \in keep : \A j \in keep : i <= j
                 hi == CHOOSE i \in keep : \A j \in keep : j <= i
             IN  SubSeq(s, lo, hi)

\* `sub in s` for strings
Contains(s, sub) ==
    \E i \in 1..(Len(s) - Len(sub) + 1) : SubSeq(s, i, i + Len(sub) - 1) = sub

\* any(d.isdigit() for d in s)
AnyDigit(s) == \E i \in 1..Len(s) : IsDigit(s[i])

DigitValue(c) ==
    CASE c = "0" -> 0 [] c = "1" -> 1 [] c = "2" -> 2 [] c = "3" -> 3
      [] c = "4" -> 4 [] c = "5" -> 5 [] c = "6" -> 6 [] c = "7" -> 7
      [] c = "8" -> 8 [] c = "9" -> 9

\* int(s) for a non-empty string of digits
RECURSIVE ToInt(_)
ToInt(s) ==
    IF s = <<>> THEN 0
    ELSE 10 * ToInt(SubSeq(s, 1, Len(s) - 1)) + DigitValue(s[Len(s)])

\* s[a:b] of Python for 0 <= a, 0 <= b (clamped to the length)
Slice(s, a, b) ==
    LET hi == IF b > Len(s) THEN Len(s) ELSE b
    IN  IF a >= hi THEN <<>> ELSE SubSeq(s, a + 1, hi)

\* s[-n:] of Python for n >= 0: -0 is 0, so s[-0:] is the whole string
LastChars(s, n) ==
    IF n = 0 THEN s
    ELSE IF n >= Len(s) THEN s ELSE SubSeq(s, Len(s) - n + 1, Len(s))

\* s[:n] of Python for n >= 0
FirstChars(s, n) == Slice(s, 0, n)

(***************************************************************************)
(* The regular expressions of _extract_password_format, as sequences of    *)
(* items, and re.search over them: a backtracking matcher with lazy `.*?`, *)
(* ordered alternation and a greedy capturing class `(\w+)` / `(\d+)`.     *)
(***************************************************************************)
Lit(s) == [t |-> "lit", alts |-> <<s>>, cls |-> ""]
Alt(a) == [t |-> "lit", alts |-> a, cls |-> ""]
LazyAny == [t |-> "lazy", alts |-> <<>>, cls |-> ""]
Cap(c) == [t |-> "cap", alts |-> <<>>, cls |-> c]

InClass(c, cls) == IF cls = "d" THEN IsDigit(c) ELSE IsWordChar(c)

NoMatch == [ok |-> FALSE, group1 |-> <<>>]

HasPrefixAt(s, pos, lit) ==
    /\ pos + Len(lit) - 1 <= Len(s)
    /\ SubSeq(s, pos, pos + Len(lit) - 1) = lit

\* the length of the longest run of characters of class cls at s[pos..]
RECURSIVE RunLength(_, _, _)
RunLength(s, pos, cls) ==
    IF pos <= Len(s) /\ InClass(s[pos], cls)
    THEN 1 + RunLength(s, pos + 1, cls)
    ELSE 0

RECURSIVE MatchAt(_, _, _, _, _)
RECURSIVE MatchAlts(_, _, _, _, _, _)
RECURSIVE MatchCap(_, _, _, _, _)

\* items[k..] matched against s from position pos; g is group 1 so far
MatchAt(items, k, s, pos, g) ==
    IF k > Len(items) THEN [ok |-> TRUE, group1 |-> g]
    ELSE LET it == items[k] IN
         CASE it.t = "lit" -> MatchAlts(items, k, s, pos, g, 1)
           [] it.t = "lazy" ->
                LET r == MatchAt(items, k + 1, s, pos, g) IN
                IF r.ok THEN r
                ELSE IF pos <= Len(s) /\ s[pos] # "\n"
                     THEN MatchAt(items, k, s, pos + 1, g)
                     ELSE NoMatch
           [] it.t = "cap" ->
                MatchCap(items, k, s, pos, RunLength(s, pos, it.cls))

\* the alternatives of items[k], tried left to right from the j-th
MatchAlts(items, k, s, pos, g, j) ==
    LET a == items[k].alts IN
    IF j > Len(a) THEN NoMatch
    ELSE LET r == IF HasPrefixAt(s, pos, a[j])
                  THEN MatchAt(items, k + 1, s, pos + Len(a[j]), g)
                  ELSE NoMatch
         IN  IF r.ok THEN r ELSE MatchAlts(items, k, s, pos, g, j + 1)

\* the greedy group items[k]: n characters first, then n-1, ... down to 1
MatchCap(items, k, s, pos, n) ==
    IF n < 1 THEN NoMatch
    ELSE LET r == MatchAt(items, k + 1, s, pos + n, SubSeq(s, pos, pos + n - 1))
         IN  IF r.ok THEN r ELSE MatchCap(items, k, s, pos, n - 1)

\* re.search(pattern, s): the leftmost start position that matches
RECURSIVE SearchFrom(_, _, _)
SearchFrom(items, s, start) ==
    IF start > Len(s) + 1 THEN NoMatch
    ELSE LET r == MatchAt(items, 1, s, start, <<>>)
         IN  IF r.ok THEN r ELSE SearchFrom(items, s, start + 1)

ReSearch(items, s) == SearchFrom(items, s, 1)

(***************************************************************************)
(* String constants of the handler.                                        *)
(***************************************************************************)
\* "password"
W_password == <<"p", "a", "s", "s", "w", "o", "r", "d">>
\* "is"
W_is == <<"i", "s">>
\* ":"
W_colon == <<":">>
\* "date of birth"
W_date_of_birth ==
    <<"d", "a", "t", "e", " ", "o", "f", " ", "b", "i", "r", "t", "h">>
\* "DOB"
W_DOB == <<"D", "O", "B">>
\* "dob"
W_dob == <<"d", "o", "b">>
\* "format"
W_format == <<"f", "o", "r", "m", "a", "t">>
\* "in"
W_in == <<"i", "n">>
\* "last "
W_last_sp == <<"l", "a", "s", "t", " ">>
\* "first "
W_first_sp == <<"f", "i", "r", "s", "t", " ">>
\* " digits"
W_sp_digits == <<" ", "d", "i", "g", "i", "t", "s">>
\* "password format"
W_password_format ==
    <<"p", "a", "s", "s", "w", "o", "r", "d", " ", "f", "o", "r", "m", "a",
      "t">>
\* "for password"
W_for_password ==
    <<"f", "o", "r", " ", "p", "a", "s", "s", "w", "o", "r", "d">>
\* "as password"
W_as_password == <<"a", "s", " ", "p", "a", "s", "s", "w", "o", "r", "d">>
\* "last"
W_last == <<"l", "a", "s", "t">>
\* "first"
W_first == <<"f", "i", "r", "s", "t">>

(***************************************************************************)
(* _extract_password_format: the six patterns, tried in order on the       *)
(* lower-cased text; the first match's group 1, or None (<<>>).            *)
(***************************************************************************)
patterns ==
    << \* password.*?(?:is|:).*?(?:date of birth|DOB).*?(?:format|in).*?(\w+)
       <<Lit(W_password), LazyAny, Alt(<<W_is, W_colon>>), LazyAny,
         Alt(<<W_date_of_birth, W_DOB>>), LazyAny,
         Alt(<<W_format, W_in>>), LazyAny, Cap("w")>>,
       \* password.*?(?:is|:).*?last (\d+) digits
       <<Lit(W_password), LazyAny, Alt(<<W_is, W_colon>>), LazyAny,
         Lit(W_last_sp), Cap("d"), Lit(W_sp_digits)>>,
       \* password.*?(?:is|:).*?first (\d+) digits
       <<Lit(W_password), LazyAny, Alt(<<W_is, W_colon>>), LazyAny,
         Lit(W_first_sp), Cap("d"), Lit(W_sp_digits)>>,
       \* password format.*?(\w+)
       <<Lit(W_password_format), LazyAny, Cap("w")>>,
       \* password.*?in.*?(\w+).*?format
       <<Lit(W_password), LazyAny, Lit(W_in), LazyAny, Cap("w"), LazyAny,
         Lit(W_format)>>,
       \* format.*?(\w+).*?(?:for password|as password)
       <<Lit(W_format), LazyAny, Cap("w"), LazyAny,
         Alt(<<W_for_password, W_as_password>>)>> >>

RECURSIVE FirstPatternMatch(_, _)
FirstPatternMatch(text, i) ==
    IF i > Len(patterns) THEN <<>>
    ELSE LET m == ReSearch(patterns[i], text)
         IN  IF m.ok THEN m.group1 ELSE FirstPatternMatch(text, i + 1)

extract_password_format(email_body) == FirstPatternMatch(Lower(email_body), 1)

\* the second argument process_pdf passes to _generate_variants_from_format
HintOf(email_body) ==
    IF email_body # <<>> THEN extract_password_format(email_body) ELSE <<>>

(***************************************************************************)
(* _generate_variants_from_format.  The list built before the last line    *)
(* is VariantList; the function returns list(set(...)) of it, a list with  *)
(* the same elements in whatever order the set iterates.                   *)
(***************************************************************************)
DobVariants(password) ==
    LET clean_pass == Strip(RemoveChar(RemoveChar(password, "/"), "-"))
    IN  IF Len(clean_pass) = 8
        THEN << clean_pass,
                Slice(clean_pass, 4, 8) \o Slice(clean_pass, 2, 4)
                    \o Slice(clean_pass, 0, 2),
                Slice(clean_pass, 0, 4) \o Slice(clean_pass, 4, 6)
                    \o Slice(clean_pass, 6, 8) >>
        ELSE <<>>

\* LastVariants with a fault: the slice is taken from the front
LastVariants_TakesFirst(password, hint) ==
    LET num_digits == ToInt(FilterDigits(hint))
    IN  IF Len(password) >= num_digits
        THEN <<FirstChars(password, num_digits)>> ELSE <<>>

LastVariants(password, hint) ==
    LET num_digits == ToInt(FilterDigits(hint))
    IN  IF Len(password) >= num_digits
        THEN <<LastChars(password, num_digits)>> ELSE <<>>

FirstVariants(password, hint) ==
    LET num_digits == ToInt(FilterDigits(hint))
    IN  IF Len(password) >= num_digits
        THEN <<FirstChars(password, num_digits)>> ELSE <<>>

\* BasicVariants with a fault: the digits-only variant is left out
BasicVariants_NoDigits(password) ==
    <<Strip(password), RemoveChar(password, " ")>>

BasicVariants(password) ==
    <<Strip(password), RemoveChar(password, " "), FilterDigits(password)>>

VariantList(password, format_hint) ==
    IF format_hint = <<>> THEN <<password>>
    ELSE LET hint == Lower(format_hint)
             byHint ==
                 IF Contains(hint, W_dob) \/ Contains(hint, W_date_of_birth)
                 THEN DobVariants(password)
                 ELSE IF Contains(hint, W_last) /\ AnyDigit(hint)
                 THEN LastVariants(password, hint)
                 ELSE IF Contains(hint, W_first) /\ AnyDigit(hint)
                 THEN FirstVariants(password, hint)
                 ELSE <<>>
         IN  <<password>> \o byHint \o BasicVariants(password)

SeqToSet(s) == {s[i] : i \in 1..Len(s)}

\* set(variants): the elements of the returned list
generate_variants_from_format(password, format_hint) ==
    IF format_hint = <<>> THEN {password}
    ELSE SeqToSet(VariantList(password, format_hint))

\* list(s) of a set s: its elements, each once, in the order the set
\* iterates, which follows the hashes of the strings
RECURSIVE ListsOf(_)
ListsOf(S) ==
    IF S = {} THEN {<<>>}
    ELSE UNION { {<<x>> \o l : l \in ListsOf(S \ {x})} : x \in S }

\* the lists a call of _generate_variants_from_format can return
generate_variants_returns(password, format_hint) ==
    IF format_hint = <<>> THEN {<<password>>}
    ELSE ListsOf(SeqToSet(VariantList(password, format_hint)))

(***************************************************************************)
(* The inputs of the model.                                                *)
(*                                                                         *)
(* A document is what PyPDF2 makes of its bytes:                           *)
(*   kind        "empty" (b""), "malformed" (PdfReader raises), "plain"    *)
(*               (is_encrypted is False) or "enc" (is_encrypted is True);  *)
(*   accept      the passwords for which decrypt() reports success (a PDF  *)
(*               has a user and an owner password);                        *)
(*   garble      the accepted passwords after which pages[0].extract_text  *)
(*               raises;                                                   *)
(*   write_fails whether PdfWriter.add_page / write raises on its pages.   *)
(***************************************************************************)
\* "12"
P_12 == <<"1", "2">>
\* "1 2"
P_1s2 == <<"1", " ", "2">>
\* " 2"
P_s2 == <<" ", "2">>
\* "a7"
P_a7 == <<"a", "7">>
\* " "
P_blank == <<" ">>

\* the strings a pool is made of: "1 2" has the variants " 2" (last 2) and
\* "12" (no spaces, digits only), "a7" has the variant "7" (digits only)
PoolStrings == {P_1s2, P_a7, P_blank}

Pools == UNION {[1..n -> PoolStrings] : n \in 0..MaxPoolLen}

\* "password format: last2"   (format hint "last2")
B_last2 ==
    <<"p", "a", "s", "s", "w", "o", "r", "d", " ", "f", "o", "r", "m", "a",
      "t", ":", " ", "l", "a", "s", "t", "2">>

\* None or '' (no email body), and a body that describes a format
Bodies == {<<>>, B_last2}

Groups == {"kw1", "kw2"}

Doc(id, kind, accept, garble, write_fails) ==
    [id |-> id, kind |-> kind, accept |-> accept, garble |-> garble,
     write_fails |-> write_fails]

Docs ==
    { Doc("empty", "empty", {}, {}, FALSE),
      Doc("malformed", "malformed", {}, {}, FALSE),
      Doc("plain", "plain", {}, {}, FALSE),
      Doc("enc12", "enc", {P_12}, {}, FALSE),
      Doc("enc_a7", "enc", {P_a7}, {}, FALSE),
      Doc("enc_two_keys", "enc", {P_12, P_s2}, {}, FALSE),
      Doc("enc_garbled", "enc", {P_12, P_s2}, {P_s2}, FALSE),
      Doc("enc_unwritable", "enc", {P_12}, {}, TRUE) }

(***************************************************************************)
(* The inputs of the worked examples: a card number whose last four digits *)
(* are the key, and a date of birth.                                       *)
(***************************************************************************)
\* "card-number-1234567"
P_card ==
    <<"c", "a", "r", "d", "-", "n", "u", "m", "b", "e", "r", "-", "1", "2",
      "3", "4", "5", "6", "7">>
\* "4567"
P_4567 == <<"4", "5", "6", "7">>
\* "1234567"
P_1234567 == <<"1", "2", "3", "4", "5", "6", "7">>
\* "01011990"
P_01011990 == <<"0", "1", "0", "1", "1", "9", "9", "0">>
\* "19900101"
P_19900101 == <<"1", "9", "9", "0", "0", "1", "0", "1">>

\* "use last 4 digits"
B_use_last4 ==
    <<"u", "s", "e", " ", "l", "a", "s", "t", " ", "4", " ", "d", "i", "g",
      "i", "t", "s">>
\* "password format: last4"
B_format_last4 ==
    <<"p", "a", "s", "s", "w", "o", "r", "d", " ", "f", "o", "r", "m", "a",
      "t", ":", " ", "l", "a", "s", "t", "4">>
\* "password is date of birth in DOB format"
B_dob ==
    <<"p", "a", "s", "s", "w", "o", "r", "d", " ", "i", "s", " ", "d", "a",
      "t", "e", " ", "o", "f", " ", "b", "i", "r", "t", "h", " ", "i", "n",
      " ", "D", "O", "B", " ", "f", "o", "r", "m", "a", "t">>

HintPools == {<<>>, <<P_card>>, <<P_4567>>, <<P_01011990>>}

HintBodies == {B_use_last4, B_format_last4, B_dob}

\* documents locked with the last four digits (one also opens with all the
\* digits, as its owner password; one does so but its first page cannot be
\* read then; one cannot be rewritten) and with a date of birth
HintDocs ==
    { Doc("enc_4567", "enc", {P_4567}, {}, FALSE),
      Doc("enc_4567_owner", "enc", {P_4567, P_1234567}, {}, FALSE),
      Doc("enc_4567_garbled", "enc", {P_4567, P_1234567}, {P_1234567}, FALSE),
      Doc("enc_4567_unwritable", "enc", {P_4567}, {}, TRUE),
      Doc("enc_19900101", "enc", {P_19900101}, {}, FALSE) }

\* the format hint of each email body of the model
FormatHint == [email_body \in Bodies \cup HintBodies |-> HintOf(email_body)]

(***************************************************************************)
(* Byte strings: the caller's file_data, and the output of PdfWriter.      *)
(***************************************************************************)
NoData == [tag |-> "None", of |-> ""]

\* the bytes the caller passed in
FileData(file) == [tag |-> "file_data", of |-> file.id]

\* output.getvalue() after writer.write(output): a newly serialised PDF
OutputPdf(file) == [tag |-> "output_pdf", of |-> file.id]

(***************************************************************************)
(* _try_decrypt_with_password on a reader of `file`: True iff decrypt      *)
(* reports success and the first page's text can be extracted; an          *)
(* exception is caught and turned into False.                              *)
(***************************************************************************)
\* try_decrypt_with_password with a fault: the first page is not read
\* after decrypt has reported success
try_decrypt_with_password_NoPageCheck(file, password) ==
    IF file.kind # "enc" THEN [ok |-> TRUE, raised |-> FALSE]
    ELSE IF password \in file.accept
         THEN [ok |-> TRUE, raised |-> FALSE]
         ELSE [ok |-> FALSE, raised |-> FALSE]

\* _try_decrypt_with_password
try_decrypt_with_password(file, password) ==
    IF file.kind # "enc" THEN [ok |-> TRUE, raised |-> FALSE]
    ELSE IF password \in file.accept
         THEN IF password \in file.garble
              THEN [ok |-> FALSE, raised |-> TRUE]
              ELSE [ok |-> TRUE, raised |-> FALSE]
         ELSE [ok |-> FALSE, raised |-> FALSE]

\* One call of _try_decrypt_with_password, as logged: which string, from
\* where (the cache, pool entry idx verbatim, or a variant of pool entry
\* idx), on which reader (numbered in order of creation), and the result.
Attempt(kind, idx, password, reader, file) ==
    [kind |-> kind, idx |-> idx, pw |-> password, reader |-> reader,
     ok |-> try_decrypt_with_password(file, password).ok,
     raised |-> try_decrypt_with_password(file, password).raised]

NotFound(log, readers) ==
    [found |-> FALSE, pw |-> <<>>, log |-> log, readers |-> readers]

Found(password, log, readers) ==
    [found |-> TRUE, pw |-> password, log |-> log, readers |-> readers]

\* `for variant in variants`: each on a fresh reader, in the order the list
\* built from a set happens to have; stops at the first that unlocks.
RECURSIVE VariantScan(_, _, _, _, _)
VariantScan(file, todo, idx, log, readers) ==
    IF todo = {} THEN {NotFound(log, readers)}
    ELSE UNION { LET a == Attempt("variant", idx, v, readers + 1, file) IN
                 IF a.ok THEN {Found(v, Append(log, a), readers + 1)}
                 ELSE VariantScan(file, todo \ {v}, idx, Append(log, a),
                                  readers + 1)
                 : v \in todo }

\* `for password in passwords`: blank entries skipped, the password itself
\* on a fresh reader, then its variants.
RECURSIVE PoolScan(_, _, _, _, _, _)
PoolScan(file, passwords, hint, i, log, readers) ==
    IF i > Len(passwords) THEN {NotFound(log, readers)}
    ELSE LET password == passwords[i] IN
         IF Strip(password) = <<>>
         THEN PoolScan(file, passwords, hint, i + 1, log, readers)
         ELSE LET a == Attempt("verbatim", i, password, readers + 1, file) IN
              IF a.ok THEN {Found(password, Append(log, a), readers + 1)}
              ELSE UNION { IF o.found THEN {o}
                           ELSE PoolScan(file, passwords, hint, i + 1,
                                         o.log, o.readers)
                           : o \in VariantScan(file,
                                       generate_variants_from_format(password, hint), i,
                                       Append(log, a), readers + 1) }

(***************************************************************************)
(* process_pdf.                                                            *)
(***************************************************************************)
\* what process_pdf returns (the transactions are left out), with the log
\* of its decrypt attempts and whether the PdfWriter raised
Return(data, needs_password, error, log, write_raised) ==
    [data |-> data, needs_password |-> needs_password, error |-> error,
     attempts |-> log, write_raised |-> write_raised]

\* Store with a fault: the dict is replaced, not updated
Store_ReplacesDict(cache, group_key, password) ==
    [g \in {group_key} |-> password]

\* Store with a fault: an entry that exists is kept (dict.setdefault)
Store_KeepsExisting(cache, group_key, password) ==
    IF group_key \in DOMAIN cache THEN cache
    ELSE [g \in DOMAIN cache \cup {group_key} |->
             IF g = group_key THEN password ELSE cache[g]]

\* self.group_passwords[group_key] = password
Store(cache, group_key, password) ==
    [g \in DOMAIN cache \cup {group_key} |->
        IF g = group_key THEN password ELSE cache[g]]

\* WriteOutput with a fault: the input bytes are returned, still encrypted
WriteOutput_ReturnsInput(file, log) ==
    IF file.write_fails
    THEN Return(NoData, FALSE, "Error processing PDF: ", log, TRUE)
    ELSE Return(FileData(file), FALSE, "", log, FALSE)

\* WriteOutput with a fault: the handler of the outer try returns str(e)
\* alone, which is empty for an exception without arguments
WriteOutput_EmptyMessage(file, log) ==
    IF file.write_fails
    THEN Return(NoData, FALSE, "", log, TRUE)
    ELSE Return(OutputPdf(file), FALSE, "", log, FALSE)

\* "Create unencrypted PDF" and return it; an exception of the writer
\* reaches the handler of the outer try.
WriteOutput(file, log) ==
    IF file.write_fails
    THEN Return(NoData, FALSE, "Error processing PDF: ", log, TRUE)
    ELSE Return(OutputPdf(file), FALSE, "", log, FALSE)

\* PassThrough with a fault: the document is rewritten like a decrypted one
PassThrough_Rewritten(file) == Return(OutputPdf(file), FALSE, "", <<>>, FALSE)

\* the branch for a document that is not encrypted
PassThrough(file) == Return(FileData(file), FALSE, "", <<>>, FALSE)

\* PasswordRequired with a fault: the flag needs_password is not set
PasswordRequired_AsError(log) ==
    Return(NoData, FALSE, "Password required", log, FALSE)

\* the branch `if not passwords`
PasswordRequired(log) == Return(NoData, TRUE, "Password required", log, FALSE)

\* NotDecrypted with a fault: the flag needs_password is not set
NotDecrypted_AsError(log) ==
    Return(NoData, FALSE, "File has not been decrypted", log, FALSE)

\* the return after the loop over the pool
NotDecrypted(log) ==
    Return(NoData, TRUE, "File has not been decrypted", log, FALSE)

\* reversed(passwords)
Reversed(passwords) ==
    [i \in 1..Len(passwords) |-> passwords[Len(passwords) + 1 - i]]

\* TryPool with a fault: the pool is walked from its last entry
TryPool_Reversed(file, group_key, passwords, email_body, cache, log) ==
    { IF o.found
      THEN [cache |-> Store(cache, group_key, o.pw),
            out |-> WriteOutput(file, o.log)]
      ELSE [cache |-> cache, out |-> NotDecrypted(o.log)]
      : o \in PoolScan(file, Reversed(passwords), FormatHint[email_body], 1,
                       log, 1) }

\* TryPool with a fault: when the pool is exhausted, the entry of the group
\* (a cached password that has just failed) is deleted
TryPool_DropsStaleEntry(file, group_key, passwords, email_body, cache, log) ==
    { IF o.found
      THEN [cache |-> Store(cache, group_key, o.pw),
            out |-> WriteOutput(file, o.log)]
      ELSE [cache |-> [g \in DOMAIN cache \ {group_key} |-> cache[g]],
            out |-> NotDecrypted(o.log)]
      : o \in PoolScan(file, passwords, FormatHint[email_body], 1, log, 1) }

\* TryPool with a fault: the entry of a group is written once and then kept
TryPool_KeepsFirstEntry(file, group_key, passwords, email_body, cache, log) ==
    { IF o.found
      THEN [cache |-> IF group_key \in DOMAIN cache THEN cache
                      ELSE Store(cache, group_key, o.pw),
            out |-> WriteOutput(file, o.log)]
      ELSE [cache |-> cache, out |-> NotDecrypted(o.log)]
      : o \in PoolScan(file, passwords, FormatHint[email_body], 1, log, 1) }

\* TryPool with a fault: when a variant unlocks the document, the pool entry
\* it was made from is stored
TryPool_StoresCandidate(file, group_key, passwords, email_body, cache, log) ==
    { IF o.found
      THEN [cache |-> Store(cache, group_key,
                            passwords[o.log[Len(o.log)].idx]),
            out |-> WriteOutput(file, o.log)]
      ELSE [cache |-> cache, out |-> NotDecrypted(o.log)]
      : o \in PoolScan(file, passwords, FormatHint[email_body], 1, log, 1) }

\* TryPool with a fault: when the pool is exhausted, its last entry is
\* stored for the group
TryPool_StoresOnFailure(file, group_key, passwords, email_body, cache, log) ==
    { IF o.found
      THEN [cache |-> Store(cache, group_key, o.pw),
            out |-> WriteOutput(file, o.log)]
      ELSE [cache |-> Store(cache, group_key, passwords[Len(passwords)]),
            out |-> NotDecrypted(o.log)]
      : o \in PoolScan(file, passwords, FormatHint[email_body], 1, log, 1) }

\* the runs of `for password in passwords` and what follows each
TryPool(file, group_key, passwords, email_body, cache, log) ==
    { IF o.found
      THEN [cache |-> Store(cache, group_key, o.pw),
            out |-> WriteOutput(file, o.log)]
      ELSE [cache |-> cache, out |-> NotDecrypted(o.log)]
      : o \in PoolScan(file, passwords, FormatHint[email_body], 1, log, 1) }

\* Encrypted with a fault: `if not passwords` comes before the cache
Encrypted_PoolCheckedFirst(file, group_key, passwords, email_body, cache) ==
    LET cached == group_key \in DOMAIN cache
        log == IF cached
               THEN <<Attempt("cached", 0, cache[group_key], 1, file)>>
               ELSE <<>>
    IN  IF passwords = <<>>
        THEN {[cache |-> cache, out |-> PasswordRequired(<<>>)]}
        ELSE IF cached /\ log[1].ok
        THEN {[cache |-> cache, out |-> WriteOutput(file, log)]}
        ELSE TryPool(file, group_key, passwords, email_body, cache, log)

\* Encrypted with a fault: with a pool, the success of the cached password
\* does not end the call
Encrypted_NoEarlyReturn(file, group_key, passwords, email_body, cache) ==
    LET cached == group_key \in DOMAIN cache
        log == IF cached
               THEN <<Attempt("cached", 0, cache[group_key], 1, file)>>
               ELSE <<>>
    IN  IF passwords = <<>>
        THEN IF cached /\ log[1].ok
             THEN {[cache |-> cache, out |-> WriteOutput(file, log)]}
             ELSE {[cache |-> cache, out |-> PasswordRequired(log)]}
        ELSE TryPool(file, group_key, passwords, email_body, cache, log)

\* Encrypted with a fault: with a pool, the cache is not consulted
Encrypted_CacheNotConsulted(file, group_key, passwords, email_body, cache) ==
    LET cached == group_key \in DOMAIN cache
        log == IF cached
               THEN <<Attempt("cached", 0, cache[group_key], 1, file)>>
               ELSE <<>>
    IN  IF passwords = <<>>
        THEN IF cached /\ log[1].ok
             THEN {[cache |-> cache, out |-> WriteOutput(file, log)]}
             ELSE {[cache |-> cache, out |-> PasswordRequired(log)]}
        ELSE TryPool(file, group_key, passwords, email_body, cache, <<>>)

\* the encrypted branch: the cached group password on the first reader,
\* then the pool
Encrypted(file, group_key, passwords, email_body, cache) ==
    LET cached == group_key \in DOMAIN cache
        log == IF cached
               THEN <<Attempt("cached", 0, cache[group_key], 1, file)>>
               ELSE <<>>
    IN  IF cached /\ log[1].ok
        THEN {[cache |-> cache, out |-> WriteOutput(file, log)]}
        ELSE IF passwords = <<>>
        THEN {[cache |-> cache, out |-> PasswordRequired(log)]}
        ELSE TryPool(file, group_key, passwords, email_body, cache, log)

\* process_pdf_runs with a fault: bytes that do not parse are taken for a
\* locked document
process_pdf_runs_MalformedAsLocked(file, group_key, passwords, email_body, cache) ==
    IF file.kind = "empty"
    THEN {[cache |-> cache,
           out |-> Return(NoData, FALSE, "Empty file data received", <<>>,
                          FALSE)]}
    ELSE IF file.kind = "malformed"
    THEN {[cache |-> cache, out |-> PasswordRequired(<<>>)]}
    ELSE IF file.kind = "plain"
    THEN {[cache |-> cache, out |-> PassThrough(file)]}
    ELSE Encrypted(file, group_key, passwords, email_body, cache)

\* process_pdf_runs with a fault: is_encrypted is not looked at, so that a
\* document without encryption goes through the cache and the pool
process_pdf_runs_NoEncryptionCheck(file, group_key, passwords, email_body, cache) ==
    IF file.kind = "empty"
    THEN {[cache |-> cache,
           out |-> Return(NoData, FALSE, "Empty file data received", <<>>,
                          FALSE)]}
    ELSE IF file.kind = "malformed"
    THEN {[cache |-> cache,
           out |-> Return(NoData, FALSE, "Error opening PDF: ", <<>>, FALSE)]}
    ELSE Encrypted(file, group_key, passwords, email_body, cache)

\* every run of process_pdf(file_data, group_key, passwords, email_body)
\* from the cache `cache`: the cache it leaves and what it returns
process_pdf_runs(file, group_key, passwords, email_body, cache) ==
    IF file.kind = "empty"
    THEN {[cache |-> cache,
           out |-> Return(NoData, FALSE, "Empty file data received", <<>>,
                          FALSE)]}
    ELSE IF file.kind = "malformed"
    THEN {[cache |-> cache,
           out |-> Return(NoData, FALSE, "Error opening PDF: ", <<>>, FALSE)]}
    ELSE IF file.kind = "plain"
    THEN {[cache |-> cache, out |-> PassThrough(file)]}
    ELSE Encrypted(file, group_key, passwords, email_body, cache)

(***************************************************************************)
(* The state: the handler's group_passwords dict (a function on the keys   *)
(* it holds), the call in flight, and the last return value with the       *)
(* arguments and the cache it started from.  password_cache and            *)
(* format_cache are never read or written except by the reset, so they     *)
(* stay empty and are left out.                                            *)
(***************************************************************************)
EmptyCache == [g \in {} |-> <<>>]

NoFile == Doc("", "none", {}, {}, FALSE)

NoCall ==
    [file |-> NoFile, group_key |-> "", passwords |-> <<>>,
     email_body |-> <<>>]

\* what a reset remembers of the call before it
NoPrior == [reset |-> FALSE, unlocked |-> FALSE, group_key |-> "", file |-> ""]

NoRet ==
    [done |-> FALSE, args |-> NoCall, cache_before |-> EmptyCache,
     out |-> Return(NoData, FALSE, "", <<>>, FALSE), after |-> NoPrior]

\* no call of _generate_variants_from_format has been made
NoGv ==
    [returned |-> FALSE, password |-> <<>>, format_hint |-> <<>>,
     variants |-> <<>>]

\* no call of find_working_password has returned
NoFwp ==
    [done |-> FALSE, args |-> NoCall, cache_before |-> EmptyCache,
     found |-> FALSE, password |-> <<>>, attempts |-> <<>>]

\* no repeated call of process_pdf has returned
NoSecond ==
    [done |-> FALSE, from |-> "", cache_before |-> EmptyCache,
     cache_after |-> EmptyCache, out |-> Return(NoData, FALSE, "", <<>>, FALSE)]

\* no call of process_pdf_batch is in progress or has returned
NoBatch ==
    [state |-> "none", app |-> "", attachments |-> <<>>,
     current_keyword |-> "", passwords |-> <<>>, i |-> 0,
     success_count |-> 0, password_required |-> <<>>,
     processed_files |-> {}, processed_filenames |-> <<>>,
     error_files |-> <<>>, processed_at_call |-> {}, events |-> <<>>,
     flow |-> [pre_resolved |-> FALSE, pool |-> <<>>,
               working_password |-> <<>>]]

\* no two calls of process_pdf run interleaved
NoThreads == [started |-> FALSE, t |-> <<>>, writes |-> <<>>,
              cache_at_start |-> EmptyCache]

Success(out) == out.data # NoData /\ ~out.needs_password /\ out.error = ""

NeedsPassword(out) == out.data = NoData /\ out.needs_password /\ out.error # ""

HardError(out) == out.data = NoData /\ ~out.needs_password /\ out.error # ""

\* the call wrote group_passwords[group_key]: its last decrypt attempt was
\* a pool candidate or a variant, and it unlocked the document
Stored(out) ==
    /\ out.attempts # <<>>
    /\ out.attempts[Len(out.attempts)].ok
    /\ out.attempts[Len(out.attempts)].kind # "cached"

Init ==
    /\ group_passwords = EmptyCache
    /\ pc = "idle"
    /\ call = NoCall
    /\ ret = NoRet
    /\ prior = NoPrior
    /\ cached_by_success = {}
    /\ gv = NoGv
    /\ fwp = NoFwp
    /\ second = NoSecond
    /\ batch = NoBatch
    /\ threads = NoThreads

\* a caller invokes process_pdf
Call(file, group_key, passwords, email_body) ==
    /\ pc = "idle"
    /\ pc' = "called"
    /\ call' = [file |-> file, group_key |-> group_key,
                passwords |-> passwords, email_body |-> email_body]
    /\ UNCHANGED <<group_passwords, ret, prior, cached_by_success>>
    /\ UNCHANGED beside
    /\ UNCHANGED flows

\* process_pdf runs to its return
process_pdf ==
    /\ pc = "called"
    /\ \E run \in process_pdf_runs(call.file, call.group_key, call.passwords,
                                 call.email_body, group_passwords) :
          /\ group_passwords' = run.cache
          /\ ret' = [done |-> TRUE, args |-> call,
                     cache_before |-> group_passwords, out |-> run.out,
                     after |-> prior]
          /\ cached_by_success' =
                IF Stored(run.out)
                THEN IF Success(run.out)
                     THEN cached_by_success \cup {call.group_key}
                     ELSE cached_by_success \ {call.group_key}
                ELSE cached_by_success
    /\ pc' = "returned"
    /\ call' = NoCall
    /\ prior' = NoPrior
    /\ UNCHANGED beside
    /\ UNCHANGED flows

\* the caller has taken the returned tuple
Resume ==
    /\ pc = "returned"
    /\ pc' = "idle"
    /\ ret' = NoRet
    /\ second' = NoSecond
    /\ UNCHANGED <<group_passwords, call, prior, cached_by_success, gv, fwp>>
    /\ UNCHANGED flows

\* clear_password_cache with a fault: group_passwords is not reset
clear_password_cache_KeepsGroups ==
    /\ pc \in {"idle", "returned"}
    /\ pc' = "idle"
    /\ group_passwords' = group_passwords
    /\ prior' = IF ret.done
                THEN [reset |-> TRUE,
                      unlocked |-> ret.args.file.kind = "enc"
                                   /\ Success(ret.out),
                      group_key |-> ret.args.group_key,
                      file |-> ret.args.file.id]
                ELSE [prior EXCEPT !.reset = TRUE]
    /\ ret' = NoRet
    /\ cached_by_success' = cached_by_success
    /\ second' = NoSecond
    /\ UNCHANGED <<call, gv, fwp>>
    /\ UNCHANGED flows

\* clear_password_cache, called between two calls of process_pdf
clear_password_cache ==
    /\ pc \in {"idle", "returned"}
    /\ pc' = "idle"
    /\ group_passwords' = EmptyCache
    /\ prior' = IF ret.done
                THEN [reset |-> TRUE,
                      unlocked |-> ret.args.file.kind = "enc"
                                   /\ Success(ret.out),
                      group_key |-> ret.args.group_key,
                      file |-> ret.args.file.id]
                ELSE [prior EXCEPT !.reset = TRUE]
    /\ ret' = NoRet
    /\ cached_by_success' = {}
    /\ second' = NoSecond
    /\ UNCHANGED <<call, gv, fwp>>
    /\ UNCHANGED flows

Next ==
    \/ \E file \in Docs, group_key \in Groups, passwords \in Pools,
          email_body \in Bodies :
          Call(file, group_key, passwords, email_body)
    \/ process_pdf
    \/ Resume
    \/ clear_password_cache

Spec == Init /\ [][Next]_vars

(***************************************************************************)
(* Vocabulary of the properties.  While ret.done holds, process_pdf has    *)
(* just returned: ret holds its arguments, the cache it started from and   *)
(* what it returned, and group_passwords is the cache it left.             *)
(***************************************************************************)
Att == ret.out.attempts

LastAtt == Att[Len(Att)]

Encr == ret.done /\ ret.args.file.kind = "enc"

\* the group of the call had a cached password when the call began
CachedBefore == ret.args.group_key \in DOMAIN ret.cache_before

CachedPw == ret.cache_before[ret.args.group_key]

\* "decrypts under P": decrypt succeeds and the first page is readable
Unlocks(file, password) == try_decrypt_with_password(file, password).ok

CachedUnlocks == CachedBefore /\ Unlocks(ret.args.file, CachedPw)

NonBlank(password) == Strip(password) # <<>>

\* the strings pool entry `password` stands for: itself and its variants
CandidateStrings(password, email_body) ==
    {password} \cup generate_variants_from_format(password, FormatHint[email_body])

\* some non-blank pool entry, or a variant of one, unlocks the document
PoolUnlocks(file, passwords, email_body) ==
    \E i \in 1..Len(passwords) :
        /\ NonBlank(passwords[i])
        /\ \E v \in CandidateStrings(passwords[i], email_body) :
              Unlocks(file, v)

\* the call made no attempt with a pool candidate or a variant
NoPoolAttempt == \A i \in 1..Len(Att) : Att[i].kind = "cached"

\* the call left every cache entry as it found it
CacheUntouched == group_passwords = ret.cache_before

\* the entries of all groups but the call's own are as the call found them
OtherGroupsUntouched ==
    \A g \in (DOMAIN group_passwords \cup DOMAIN ret.cache_before)
              \ {ret.args.group_key} :
        /\ g \in DOMAIN group_passwords
        /\ g \in DOMAIN ret.cache_before
        /\ group_passwords[g] = ret.cache_before[g]

\* every variant of pool entry k was attempted, as a variant of k
AllVariantsTried(k) ==
    \A v \in generate_variants_from_format(ret.args.passwords[k],
                                           FormatHint[ret.args.email_body]) :
        \E i \in 1..Len(Att) :
            Att[i].kind = "variant" /\ Att[i].idx = k /\ Att[i].pw = v

(***************************************************************************)
(* C1.  For every document that is not encrypted, process_pdf returns the  *)
(* input bytes unchanged, needs_password = False and an empty message,     *)
(* whatever the pool, the email body and the cache.                        *)
(***************************************************************************)
C1_UnencryptedPassesThrough ==
    (ret.done /\ ret.args.file.kind = "plain") =>
        /\ ret.out.data = FileData(ret.args.file)
        /\ ~ret.out.needs_password
        /\ ret.out.error = ""

C1_Witness ==
    /\ ret.done
    /\ ret.args.file.kind = "plain"
    /\ ret.args.passwords # <<>>
    /\ ret.args.email_body # <<>>
    /\ CachedBefore
    /\ ret.out.data = FileData(ret.args.file)

(***************************************************************************)
(* C2 as stated.  If a successful call cached P under G, a later call for  *)
(* G on an encrypted document that P unlocks returns success using P       *)
(* alone, whatever the pool.                                               *)
(***************************************************************************)
C2_CachedPasswordAlwaysSucceeds ==
    (Encr /\ CachedUnlocks /\ ret.args.group_key \in cached_by_success) =>
        /\ Success(ret.out)
        /\ Len(Att) = 1

(***************************************************************************)
(* C2 as amended.  If G has a cached password P, a call for G on an        *)
(* encrypted document that P unlocks makes exactly one decrypt attempt,    *)
(* with P, whatever the pool, and leaves the cache as it was; it returns   *)
(* success with the rewritten document, unless writing the output raises,  *)
(* and then it returns the hard error.                                     *)
(***************************************************************************)
C2_CachedPasswordAlone ==
    (Encr /\ CachedUnlocks) =>
        /\ Len(Att) = 1
        /\ Att[1].kind = "cached"
        /\ Att[1].pw = CachedPw
        /\ CacheUntouched
        /\ IF ret.args.file.write_fails
           THEN HardError(ret.out) /\ ret.out.write_raised
           ELSE Success(ret.out) /\ ret.out.data = OutputPdf(ret.args.file)

C2_Witness ==
    /\ Encr
    /\ CachedUnlocks
    /\ ret.args.group_key \in cached_by_success
    /\ ret.args.passwords # <<>>
    /\ \A i \in 1..Len(ret.args.passwords) : ret.args.passwords[i] # CachedPw
    /\ ~PoolUnlocks(ret.args.file, ret.args.passwords, ret.args.email_body)
    /\ Success(ret.out)

(***************************************************************************)
(* C3 as stated.  For an encrypted document that the cached password of    *)
(* its group (if any) does not unlock: with an empty pool the call returns *)
(* (None, True, "password required") without a pool attempt; with a pool   *)
(* of which no candidate and no variant unlocks the document it returns    *)
(* (None, True, "document has not been decrypted").                        *)
(***************************************************************************)
C3_LockedMessagesAsStated ==
    (Encr /\ ~CachedUnlocks) =>
        /\ ret.args.passwords = <<>> =>
              /\ ret.out.data = NoData
              /\ ret.out.needs_password
              /\ ret.out.error = "password required"
              /\ NoPoolAttempt
        /\ (/\ ret.args.passwords # <<>>
            /\ ~PoolUnlocks(ret.args.file, ret.args.passwords,
                            ret.args.email_body)) =>
              /\ ret.out.data = NoData
              /\ ret.out.needs_password
              /\ ret.out.error = "document has not been decrypted"

(***************************************************************************)
(* C3 as amended.  The same two cases, with the messages the code returns: *)
(* "Password required" for the empty pool, "File has not been decrypted"   *)
(* for the exhausted pool.                                                 *)
(***************************************************************************)
C3_LockedOutcomes ==
    (Encr /\ ~CachedUnlocks) =>
        /\ ret.args.passwords = <<>> =>
              /\ ret.out.data = NoData
              /\ ret.out.needs_password
              /\ ret.out.error = "Password required"
              /\ NoPoolAttempt
        /\ (/\ ret.args.passwords # <<>>
            /\ ~PoolUnlocks(ret.args.file, ret.args.passwords,
                            ret.args.email_body)) =>
              /\ ret.out.data = NoData
              /\ ret.out.needs_password
              /\ ret.out.error = "File has not been decrypted"

C3_Witness ==
    /\ Encr
    /\ CachedBefore
    /\ ~CachedUnlocks
    /\ Len(ret.args.passwords) = 2
    /\ \A i \in 1..2 : NonBlank(ret.args.passwords[i])
    /\ ret.args.email_body # <<>>
    /\ ~PoolUnlocks(ret.args.file, ret.args.passwords, ret.args.email_body)
    /\ ret.out.error = "File has not been decrypted"
    /\ Len(Att) > 3

(***************************************************************************)
(* C4.  The first call after clear_password_cache starts from a cache      *)
(* with no entry for any group, and if its document is encrypted and its   *)
(* pool empty it returns needs_password = True without any decrypt         *)
(* attempt, also when the call before the reset had succeeded for the      *)
(* same group on the same document.                                        *)
(***************************************************************************)
C4_ResetForgetsGroups ==
    (ret.done /\ ret.after.reset) =>
        /\ DOMAIN ret.cache_before = {}
        /\ (ret.args.file.kind = "enc" /\ ret.args.passwords = <<>>) =>
              /\ NeedsPassword(ret.out)
              /\ Att = <<>>

C4_Witness ==
    /\ ret.done
    /\ ret.after.reset
    /\ ret.after.unlocked
    /\ ret.after.group_key = ret.args.group_key
    /\ ret.after.file = ret.args.file.id
    /\ ret.args.passwords = <<>>
    /\ NeedsPassword(ret.out)

(***************************************************************************)
(* C5.  When a pool candidate or one of its variants unlocks the document, *)
(* the call stores under group_key exactly the string that unlocked it,    *)
(* and the entries of every other group key are left unchanged.            *)
(***************************************************************************)
C5_CachesTheUnlockingString ==
    (ret.done /\ Stored(ret.out)) =>
        /\ ret.args.group_key \in DOMAIN group_passwords
        /\ group_passwords[ret.args.group_key] = LastAtt.pw
        /\ Unlocks(ret.args.file, LastAtt.pw)
        /\ OtherGroupsUntouched

C5_Witness ==
    /\ ret.done
    /\ Stored(ret.out)
    /\ LastAtt.kind = "variant"
    /\ LastAtt.pw # ret.args.passwords[LastAtt.idx]
    /\ group_passwords[ret.args.group_key] = LastAtt.pw
    /\ \E g \in DOMAIN ret.cache_before : g # ret.args.group_key

(***************************************************************************)
(* C6.  For an encrypted document whose group has a cached password, the   *)
(* cached password is the first string attempted and is attempted once;    *)
(* if it unlocks the document, no pool candidate and no variant is         *)
(* attempted.                                                              *)
(***************************************************************************)
C6_CachedPasswordFirst ==
    (Encr /\ CachedBefore) =>
        /\ Att # <<>>
        /\ Att[1].kind = "cached"
        /\ Att[1].pw = CachedPw
        /\ \A i \in 2..Len(Att) : Att[i].kind # "cached"
        /\ Att[1].ok => Len(Att) = 1

C6_Witness ==
    /\ Encr
    /\ CachedBefore
    /\ Att[1].ok
    /\ Len(Att) = 1
    /\ PoolUnlocks(ret.args.file, ret.args.passwords, ret.args.email_body)

(***************************************************************************)
(* C7.  Pool candidates are attempted strictly in pool order, blank ones   *)
(* skipped; for each candidate the string itself is attempted before its   *)
(* variants, all its variants before the next candidate, and the call      *)
(* stops at the first attempt that unlocks the document, so the string     *)
(* cached comes from the earliest pool position that has an unlocking      *)
(* string.                                                                 *)
(***************************************************************************)
C7_PoolOrder ==
    ret.done =>
        LET pool == ret.args.passwords IN
        /\ \A i \in 1..Len(Att) : Att[i].kind = "cached" => i = 1
        /\ \A i \in 1..Len(Att) : i < Len(Att) => ~Att[i].ok
        /\ \A i \in 1..Len(Att) :
              Att[i].kind # "cached" =>
                 /\ Att[i].idx \in 1..Len(pool)
                 /\ NonBlank(pool[Att[i].idx])
                 /\ \A j \in 1..Len(Att) :
                       (j < i /\ Att[j].kind # "cached")
                          => Att[j].idx <= Att[i].idx
                 /\ Att[i].kind = "verbatim" =>
                       /\ Att[i].pw = pool[Att[i].idx]
                       /\ \A j \in 1..Len(Att) :
                             (j < i /\ Att[j].kind # "cached")
                                => Att[j].idx < Att[i].idx
                 /\ Att[i].kind = "variant" =>
                       /\ Att[i].pw \in generate_variants_from_format(pool[Att[i].idx],
                                            FormatHint[ret.args.email_body])
                       /\ i > 1
                       /\ Att[i - 1].kind # "cached"
                       /\ Att[i - 1].idx = Att[i].idx
                       /\ \A j \in 1..Len(Att) :
                             (j < i /\ Att[j].kind = "variant"
                                    /\ Att[j].idx = Att[i].idx)
                                => Att[j].pw # Att[i].pw
        /\ \A k \in 1..Len(pool) :
              (/\ NonBlank(pool[k])
               /\ \/ ret.out.error = "File has not been decrypted"
                  \/ \E i \in 1..Len(Att) :
                        Att[i].kind # "cached" /\ Att[i].idx > k)
                 => AllVariantsTried(k)
        /\ Stored(ret.out) =>
              /\ group_passwords[ret.args.group_key] = LastAtt.pw
              /\ LastAtt.pw \in CandidateStrings(pool[LastAtt.idx],
                                                 ret.args.email_body)
              /\ \A k \in 1..Len(pool) :
                    (k < LastAtt.idx /\ NonBlank(pool[k])) =>
                       \A v \in CandidateStrings(pool[k],
                                                 ret.args.email_body) :
                          ~Unlocks(ret.args.file, v)

C7_Witness ==
    /\ ret.done
    /\ Stored(ret.out)
    /\ LastAtt.idx = 2
    /\ LastAtt.kind = "variant"
    /\ NonBlank(ret.args.passwords[1])
    /\ Cardinality(generate_variants_from_format(ret.args.passwords[1],
                                    FormatHint[ret.args.email_body])) > 1
    /\ group_passwords[ret.args.group_key] = LastAtt.pw

(***************************************************************************)
(* C8 as stated.  When an encrypted document is unlocked, the bytes        *)
(* returned are the input bytes, unmodified.                               *)
(***************************************************************************)
C8_ReturnsInputBytes ==
    (Encr /\ Success(ret.out)) => ret.out.data = FileData(ret.args.file)

(***************************************************************************)
(* C8 as amended.  When an encrypted document is unlocked (by the cached   *)
(* password, a candidate or a variant), the bytes returned are not the     *)
(* input bytes but the output of a PdfWriter to which the decrypted pages  *)
(* were added: a newly written, unencrypted PDF.                           *)
(***************************************************************************)
C8_ReturnsRewrittenPdf ==
    (Encr /\ Success(ret.out)) =>
        /\ ret.out.data = OutputPdf(ret.args.file)
        /\ ret.out.data # FileData(ret.args.file)
        /\ LastAtt.ok

C8_Witness ==
    /\ Encr
    /\ Success(ret.out)
    /\ LastAtt.kind = "variant"
    /\ ret.out.data = OutputPdf(ret.args.file)

(***************************************************************************)
(* C9.  For empty input bytes and for bytes that do not parse as a PDF,    *)
(* the call returns no data, needs_password = False and a non-empty        *)
(* message, makes no decrypt attempt (neither the cached password nor a    *)
(* pool candidate) and leaves the cache alone.                             *)
(***************************************************************************)
C9_InvalidInputIsHardError ==
    (ret.done /\ ret.args.file.kind \in {"empty", "malformed"}) =>
        /\ HardError(ret.out)
        /\ Att = <<>>
        /\ CacheUntouched

C9_Witness ==
    /\ ret.done
    /\ ret.args.file.kind = "malformed"
    /\ CachedBefore
    /\ ret.args.passwords # <<>>
    /\ HardError(ret.out)

(***************************************************************************)
(* C10 as stated (its last part).  Any exception raised during the call,   *)
(* by a decrypt attempt or by the writer of the output, is converted to    *)
(* the hard-error outcome.                                                 *)
(***************************************************************************)
C10_EveryExceptionIsHardError ==
    (ret.done /\ (ret.out.write_raised
                  \/ \E i \in 1..Len(Att) : Att[i].raised))
        => HardError(ret.out)

(***************************************************************************)
(* C10 as amended.  Every call returns exactly one of success (data, not   *)
(* needs_password, empty message), password-needed (no data,               *)
(* needs_password, a message) and hard error (no data, not needs_password, *)
(* a message).  A document that does not parse and an exception of the     *)
(* output writer give the hard error; an exception inside a decrypt        *)
(* attempt (decrypt or the extraction of the first page) does not: the     *)
(* attempt counts as failed and the call goes on to its next attempt, or   *)
(* ends password-needed.                                                   *)
(***************************************************************************)
C10_ThreeOutcomes ==
    ret.done =>
        /\ \/ Success(ret.out) /\ ~NeedsPassword(ret.out) /\ ~HardError(ret.out)
           \/ ~Success(ret.out) /\ NeedsPassword(ret.out) /\ ~HardError(ret.out)
           \/ ~Success(ret.out) /\ ~NeedsPassword(ret.out) /\ HardError(ret.out)
        /\ ret.out.write_raised => HardError(ret.out)
        /\ ret.args.file.kind = "malformed" => HardError(ret.out)
        /\ \A i \in 1..Len(Att) :
              Att[i].raised =>
                 /\ ~Att[i].ok
                 /\ i < Len(Att) \/ NeedsPassword(ret.out)

C10_Witness ==
    /\ ret.done
    /\ \E i \in 1..Len(Att) : Att[i].raised
    /\ Success(ret.out)

(***************************************************************************)
(* _generate_variants_from_format on its own.  The password and the hint   *)
(* of one call are drawn at the start; the only step is the call, which    *)
(* returns one of the lists list(set(variants)) can be.                    *)
(***************************************************************************)
\* "25/12/1990"
P_dob_slashed == <<"2", "5", "/", "1", "2", "/", "1", "9", "9", "0">>
\* "25121990"
P_dob_plain == <<"2", "5", "1", "2", "1", "9", "9", "0">>
\* "25-12-1990 "
P_dob_dashed == <<"2", "5", "-", "1", "2", "-", "1", "9", "9", "0", " ">>
\* "1990"
P_year == <<"1", "9", "9", "0">>
\* " a 7"
P_a_7 == <<" ", "a", " ", "7">>
\* "a4567b"
P_a4567b == <<"a", "4", "5", "6", "7", "b">>
\* "251219901"
P_nine == <<"2", "5", "1", "2", "1", "9", "9", "0", "1">>

\* "last4"
H_last4 == <<"l", "a", "s", "t", "4">>
\* "first4"
H_first4 == <<"f", "i", "r", "s", "t", "4">>
\* "last0"
H_last0 == <<"l", "a", "s", "t", "0">>
\* "ddmmyyyy"
H_ddmmyyyy == <<"d", "d", "m", "m", "y", "y", "y", "y">>
\* "4"
H_4 == <<"4">>
\* "dob_last4"
H_dob_last4 == <<"d", "o", "b", "_", "l", "a", "s", "t", "4">>
\* "first4_last"
H_first4_last == <<"f", "i", "r", "s", "t", "4", "_", "l", "a", "s", "t">>

\* the passwords of the calls: dates with and without separators, strings
\* of other lengths, a string with spaces, letters and a digit
VariantPasswords ==
    {P_dob_slashed, P_dob_plain, P_dob_dashed, P_year, P_a_7, P_a4567b,
     P_nine, P_12}

\* the hints of the calls: None (<<>>), and words \w+ as
\* _extract_password_format captures them
VariantHints ==
    {<<>>, W_dob, W_DOB, W_date_of_birth, H_last4, H_first4, H_last0,
     H_ddmmyyyy, H_4, W_last, H_dob_last4, H_first4_last}

VariantInit ==
    /\ group_passwords = EmptyCache
    /\ pc = "idle"
    /\ call = NoCall
    /\ ret = NoRet
    /\ prior = NoPrior
    /\ cached_by_success = {}
    /\ fwp = NoFwp
    /\ second = NoSecond
    /\ batch = NoBatch
    /\ threads = NoThreads
    /\ gv \in {[returned |-> FALSE, password |-> p, format_hint |-> h,
                variants |-> <<>>] :
               p \in VariantPasswords, h \in VariantHints}

\* the call _generate_variants_from_format(password, format_hint) returns
GenerateVariants ==
    /\ ~gv.returned
    /\ \E variants \in generate_variants_returns(gv.password, gv.format_hint) :
          gv' = [gv EXCEPT !.returned = TRUE, !.variants = variants]
    /\ UNCHANGED <<group_passwords, pc, call, ret, prior, cached_by_success,
                   fwp, second>>
    /\ UNCHANGED flows

VariantNext == GenerateVariants

VariantSpec == VariantInit /\ [][VariantNext]_vars

(***************************************************************************)
(* Vocabulary of the properties of the variants.                           *)
(***************************************************************************)
\* the elements of the returned list
Returned == SeqToSet(gv.variants)

\* the hint as the function reads it
HintRead == Lower(gv.format_hint)

MentionsDob ==
    Contains(HintRead, W_dob) \/ Contains(HintRead, W_date_of_birth)

MentionsLast == Contains(HintRead, W_last)

MentionsFirst == Contains(HintRead, W_first)

\* the digit count of the hint: the number its digits spell
DigitCount == ToInt(FilterDigits(HintRead))

\* the last n and the first n characters of s, for n <= Len(s)
Suffix(s, n) == [i \in 1..n |-> s[Len(s) - n + i]]

Prefix(s, n) == [i \in 1..n |-> s[i]]

\* the candidate with '/' and '-' removed
Stripped(password) == Strip(RemoveChar(RemoveChar(password, "/"), "-"))

\* the three variants every hint adds
Basics(password) ==
    {Strip(password), RemoveChar(password, " "), FilterDigits(password)}

NoDuplicates(list) ==
    \A i, j \in 1..Len(list) : list[i] = list[j] => i = j

(***************************************************************************)
(* C16 as stated.  For every password and every hint (None included) the   *)
(* list returned has no duplicates and has the original password as its    *)
(* first element; with no hint it is exactly [password].                   *)
(***************************************************************************)
C16_OriginalFirstNoDuplicates ==
    gv.returned =>
        /\ gv.variants # <<>>
        /\ gv.variants[1] = gv.password
        /\ NoDuplicates(gv.variants)
        /\ gv.format_hint = <<>> => gv.variants = <<gv.password>>

(***************************************************************************)
(* C17 as stated.  When the hint mentions "dob" or "date of birth" and the *)
(* candidate without '/' and '-' is exactly 8 characters c1..c8, the list  *)
(* contains c1..c8, the rearrangement c5c6c7c8 c3c4 c1c2 (YYYYMMDD) and    *)
(* the rearrangement c3c4 c1c2 c5c6c7c8 (MMDDYYYY); when it is not 8       *)
(* characters the rule adds nothing to the password and the basic          *)
(* variants.                                                               *)
(***************************************************************************)
C17_DobRearrangements ==
    (gv.returned /\ gv.format_hint # <<>> /\ MentionsDob) =>
        LET c == Stripped(gv.password) IN
        IF Len(c) = 8
        THEN /\ c \in Returned
             /\ <<c[5], c[6], c[7], c[8], c[3], c[4], c[1], c[2]>> \in Returned
             /\ <<c[3], c[4], c[1], c[2], c[5], c[6], c[7], c[8]>> \in Returned
        ELSE Returned = {gv.password} \cup Basics(gv.password)

(***************************************************************************)
(* C18 as stated.  When the hint mentions "last" (respectively "first")    *)
(* together with a digit count N, the list contains the final              *)
(* (respectively initial) N characters of the password if                  *)
(* len(password) >= N, and no truncated variant is added if                *)
(* len(password) < N.                                                      *)
(***************************************************************************)
C18_TruncatedVariantAsStated ==
    (gv.returned /\ AnyDigit(HintRead)) =>
        LET password == gv.password
            plain == {password} \cup Basics(password)
        IN  /\ MentionsLast =>
                  IF Len(password) >= DigitCount
                  THEN Suffix(password, DigitCount) \in Returned
                  ELSE Returned = plain
            /\ MentionsFirst =>
                  IF Len(password) >= DigitCount
                  THEN Prefix(password, DigitCount) \in Returned
                  ELSE Returned = plain

(***************************************************************************)
(* C18 as amended.  The rules are alternatives tried in the order dob,     *)
(* last, first, and N is the number spelled by all the digits of the hint. *)
(* For a hint with a digit that does not mention "dob" or "date of birth": *)
(* if it mentions "last", the list holds the password, the basic variants  *)
(* and, when len(password) >= N, password[-N:], which is the final N       *)
(* characters for N >= 1 and the whole password for N = 0; if it mentions  *)
(* "first" and not "last", the list holds the password, the basic variants *)
(* and, when len(password) >= N, the initial N characters.  Nothing else   *)
(* is in the list, so for len(password) < N no truncated variant is added. *)
(***************************************************************************)
C18_TruncatedVariant ==
    (gv.returned /\ AnyDigit(HintRead) /\ ~MentionsDob) =>
        LET password == gv.password
            plain == {password} \cup Basics(password)
        IN  /\ MentionsLast =>
                  Returned = plain \cup
                      (IF Len(password) < DigitCount THEN {}
                       ELSE IF DigitCount = 0 THEN {password}
                       ELSE {Suffix(password, DigitCount)})
            /\ (MentionsFirst /\ ~MentionsLast) =>
                  Returned = plain \cup
                      (IF Len(password) < DigitCount THEN {}
                       ELSE {Prefix(password, DigitCount)})

C18_Witness ==
    /\ gv.returned
    /\ gv.format_hint = H_last4
    /\ gv.password = P_a4567b
    /\ Suffix(gv.password, 4) \in Returned
    /\ Suffix(gv.password, 4) \notin {gv.password} \cup Basics(gv.password)

(***************************************************************************)
(* C20 as stated.  Whatever the hint, the list includes the trimmed        *)
(* password, the password with its spaces removed and the password reduced *)
(* to its digit characters.                                                *)
(***************************************************************************)
C20_BasicVariantsWhateverTheHint ==
    gv.returned => Basics(gv.password) \subseteq Returned

(***************************************************************************)
(* C20 as amended.  Whenever a hint is given (not None, not empty), the    *)
(* list includes the password, the trimmed password, the password with its *)
(* spaces removed and the password reduced to its digit characters; with   *)
(* no hint the list is [password] alone, and none of the three is added.   *)
(***************************************************************************)
C20_BasicVariantsGivenAHint ==
    gv.returned =>
        IF gv.format_hint # <<>>
        THEN ({gv.password} \cup Basics(gv.password)) \subseteq Returned
        ELSE gv.variants = <<gv.password>>

C20_Witness ==
    /\ gv.returned
    /\ gv.format_hint # <<>>
    /\ Cardinality(Basics(gv.password) \ {gv.password}) = 3
    /\ Basics(gv.password) \subseteq Returned

(***************************************************************************)
(* The handler on the worked examples, with calls that are repeated.       *)
(* After a call of process_pdf has returned, the caller may call it again  *)
(* with the same arguments (the handler then starts from the cache the     *)
(* first call left), or the same call is made on a handler whose cache is  *)
(* as the first call found it.                                             *)
(***************************************************************************)
\* how a call of process_pdf changes the record of the groups whose entry
\* a successful call stored
CachedBySuccessAfter(out, group_key) ==
    IF Stored(out)
    THEN IF Success(out)
         THEN cached_by_success \cup {group_key}
         ELSE cached_by_success \ {group_key}
    ELSE cached_by_success

\* process_pdf called again with the arguments of the call that has just
\* returned, on the same handler
process_pdf_again ==
    /\ pc = "returned"
    /\ ~second.done
    /\ \E run \in process_pdf_runs(ret.args.file, ret.args.group_key,
                                 ret.args.passwords, ret.args.email_body,
                                 group_passwords) :
          /\ group_passwords' = run.cache
          /\ second' = [done |-> TRUE, from |-> "cache_left",
                        cache_before |-> group_passwords,
                        cache_after |-> run.cache, out |-> run.out]
          /\ cached_by_success' =
                CachedBySuccessAfter(run.out, ret.args.group_key)
    /\ UNCHANGED <<pc, call, ret, prior, gv, fwp>>
    /\ UNCHANGED flows

\* process_pdf called with the arguments of the call that has just
\* returned, on a handler in the cache state that call started from
process_pdf_same_state ==
    /\ pc = "returned"
    /\ ~second.done
    /\ \E run \in process_pdf_runs(ret.args.file, ret.args.group_key,
                                 ret.args.passwords, ret.args.email_body,
                                 ret.cache_before) :
          second' = [done |-> TRUE, from |-> "same_state",
                     cache_before |-> ret.cache_before,
                     cache_after |-> run.cache, out |-> run.out]
    /\ UNCHANGED <<group_passwords, pc, call, ret, prior, cached_by_success,
                   gv, fwp>>
    /\ UNCHANGED flows

HintNext ==
    \/ \E file \in HintDocs, group_key \in Groups, passwords \in HintPools,
          email_body \in HintBodies :
          Call(file, group_key, passwords, email_body)
    \/ process_pdf
    \/ process_pdf_again
    \/ process_pdf_same_state
    \/ Resume
    \/ clear_password_cache

HintSpec == Init /\ [][HintNext]_vars

\* process_pdf has returned and has not been called again
Returned1 == ret.done /\ ~second.done

\* the three values process_pdf hands back
Outcome(out) == <<out.data, out.needs_password, out.error>>

(***************************************************************************)
(* C13.  A call of process_pdf with the arguments of an earlier call, from *)
(* the cache state the earlier call started from, returns the same data,   *)
(* the same needs_password flag and the same message, and writes the cache *)
(* for the same groups.  A call repeated right after a call that           *)
(* succeeded, from the cache that call left, returns success again with    *)
(* the same data and leaves the cache as the first call left it.           *)
(***************************************************************************)
C13_RepeatedCallSameOutcome ==
    second.done =>
        /\ second.from = "same_state" =>
              /\ Outcome(second.out) = Outcome(ret.out)
              /\ DOMAIN second.cache_after = DOMAIN group_passwords
              /\ \A g \in DOMAIN group_passwords \ {ret.args.group_key} :
                    second.cache_after[g] = group_passwords[g]
        /\ (second.from = "cache_left" /\ Success(ret.out)) =>
              /\ Success(second.out)
              /\ Outcome(second.out) = Outcome(ret.out)
              /\ second.cache_after = second.cache_before
              /\ group_passwords = second.cache_before

C13_Witness ==
    /\ second.done
    /\ second.from = "cache_left"
    /\ Success(ret.out)
    /\ Stored(ret.out)
    /\ LastAtt.kind = "variant"
    /\ ret.args.group_key \notin DOMAIN ret.cache_before
    /\ Success(second.out)
    /\ Len(second.out.attempts) = 1
    /\ second.out.attempts[1].kind = "cached"
    /\ second.cache_after = second.cache_before

(***************************************************************************)
(* C14.  A group key maps to at most one password; a successful call for a *)
(* group whose cached password failed replaces the entry by the string     *)
(* that unlocked the document; no step but clear_password_cache removes an *)
(* entry, and a call in which the cached password fails and which returns  *)
(* needs_password leaves the stale entry in place.                         *)
(***************************************************************************)
C14_OneEntryOverwrittenNeverEvicted ==
    /\ [](/\ DOMAIN group_passwords \subseteq Groups
          /\ \A g \in DOMAIN group_passwords :
                /\ group_passwords[g] \in Seq(STRING)
                /\ NonBlank(group_passwords[g])
          /\ (Returned1 /\ Encr /\ CachedBefore /\ Stored(ret.out)) =>
                /\ ~CachedUnlocks
                /\ group_passwords[ret.args.group_key] = LastAtt.pw
                /\ Unlocks(ret.args.file, LastAtt.pw)
          /\ (Returned1 /\ Encr /\ CachedBefore /\ ~CachedUnlocks
                /\ NeedsPassword(ret.out)) =>
                /\ ret.args.group_key \in DOMAIN group_passwords
                /\ group_passwords[ret.args.group_key] = CachedPw
                /\ CacheUntouched)
    /\ [][\/ clear_password_cache
          \/ \A g \in DOMAIN group_passwords : g \in DOMAIN group_passwords']_vars

C14_Witness ==
    /\ Returned1
    /\ Encr
    /\ CachedBefore
    /\ ~CachedUnlocks
    /\ ret.args.passwords # <<>>
    /\ NeedsPassword(ret.out)
    /\ Len(Att) > 2
    /\ group_passwords[ret.args.group_key] = CachedPw

(***************************************************************************)
(* C15 as stated.  Between two resets the entry of a group is written      *)
(* once, by the first successful call for the group; every later call for  *)
(* the group consults the entry and does not write it.                     *)
(***************************************************************************)
C15_PopulatedExactlyOnce ==
    (Returned1 /\ Encr) =>
        IF CachedBefore
        THEN /\ Att # <<>>
             /\ Att[1].kind = "cached"
             /\ CacheUntouched
        ELSE ~CacheUntouched => Success(ret.out)

(***************************************************************************)
(* C15 as amended.  Every call for a group that has an entry, on an        *)
(* encrypted document, tries the entry first.  A call writes the entry of  *)
(* its group exactly when a pool candidate or a variant unlocks the        *)
(* document, which it tries only when the group has no entry or the entry  *)
(* does not unlock the document: so the entry is written by the first such *)
(* call after a reset and written again by every later call in which the   *)
(* cached password fails and a pool string unlocks.  The call that writes  *)
(* returns success, or the hard error if writing the output raises.  A     *)
(* call whose cached password unlocks the document does not write.         *)
(***************************************************************************)
C15_WrittenWheneverThePoolUnlocks ==
    (Returned1 /\ Encr) =>
        /\ CachedBefore =>
              /\ Att # <<>>
              /\ Att[1].kind = "cached"
              /\ Att[1].pw = CachedPw
        /\ CachedUnlocks => CacheUntouched
        /\ IF ~CachedUnlocks
              /\ PoolUnlocks(ret.args.file, ret.args.passwords,
                             ret.args.email_body)
           THEN /\ Stored(ret.out)
                /\ ret.args.group_key \in DOMAIN group_passwords
                /\ group_passwords[ret.args.group_key] = LastAtt.pw
                /\ OtherGroupsUntouched
                /\ \/ Success(ret.out)
                   \/ HardError(ret.out) /\ ret.out.write_raised
           ELSE ~Stored(ret.out) /\ CacheUntouched

C15_Witness ==
    /\ Returned1
    /\ Encr
    /\ CachedBefore
    /\ ret.args.group_key \in cached_by_success
    /\ Stored(ret.out)
    /\ Success(ret.out)
    /\ group_passwords[ret.args.group_key] # CachedPw

(***************************************************************************)
(* C19 as stated.  With pool ["card-number-1234567"], the text "use last 4 *)
(* digits" and a document whose key is "4567", for a group without a       *)
(* cached password, process_pdf succeeds: the last-4 variant "4567" is     *)
(* attempted, unlocks the document and is cached for the group.            *)
(***************************************************************************)
C19_Last4VariantUnlocks ==
    (/\ Returned1
     /\ ret.args.file.kind = "enc"
     /\ ret.args.file.accept = {P_4567}
     /\ ~ret.args.file.write_fails
     /\ ret.args.passwords = <<P_card>>
     /\ ret.args.email_body = B_use_last4
     /\ ~CachedBefore) =>
        /\ Success(ret.out)
        /\ LastAtt.kind = "variant"
        /\ LastAtt.pw = P_4567
        /\ ret.args.group_key \in DOMAIN group_passwords
        /\ group_passwords[ret.args.group_key] = P_4567

(***************************************************************************)
(* find_working_password.  The reader made at line 281 serves the verbatim *)
(* attempt of the first pool entry; the verbatim attempt of a later entry  *)
(* runs on the reader of the last variant of the entry before it.  Only    *)
(* the variants get a reader of their own.  PdfReader.decrypt answers for  *)
(* the password it is given, on a reader that has failed an attempt as on  *)
(* a new one.                                                              *)
(***************************************************************************)
RECURSIVE FindScan(_, _, _, _, _, _)
FindScan(file, passwords, hint, i, log, readers) ==
    IF i > Len(passwords) THEN {NotFound(log, readers)}
    ELSE LET password == passwords[i] IN
         IF Strip(password) = <<>>
         THEN FindScan(file, passwords, hint, i + 1, log, readers)
         ELSE LET a == Attempt("verbatim", i, password, readers, file) IN
              IF a.ok THEN {Found(password, Append(log, a), readers)}
              ELSE UNION { IF o.found THEN {o}
                           ELSE FindScan(file, passwords, hint, i + 1,
                                         o.log, o.readers)
                           : o \in VariantScan(file,
                                       generate_variants_from_format(password, hint), i,
                                       Append(log, a), readers) }

\* what find_working_password returns: a password or None
Found1(password, log) == [found |-> TRUE, password |-> password, attempts |-> log]

None1(log) == [found |-> FALSE, password |-> <<>>, attempts |-> log]

\* find_working_password_runs with a fault: the variants are not tried
find_working_password_runs_NoVariants(file, passwords, email_body) ==
    IF file.kind # "enc" THEN {None1(<<>>)}
    ELSE { IF o.found THEN Found1(o.pw, o.log) ELSE None1(o.log)
           : o \in FindScan(file, passwords, <<>>, 1, <<>>, 1) }

\* every run of find_working_password(file_data, passwords, email_body):
\* bytes that do not parse raise into the handler of line 306
find_working_password_runs(file, passwords, email_body) ==
    IF file.kind # "enc" THEN {None1(<<>>)}
    ELSE { IF o.found THEN Found1(o.pw, o.log) ELSE None1(o.log)
           : o \in FindScan(file, passwords, FormatHint[email_body], 1,
                            <<>>, 1) }

\* the documents, pools and text of the calls of process_pdf that fill the
\* cache before find_working_password is called
SeedDocs == {d \in Docs : d.id \in {"plain", "enc12", "enc_a7"}}

SeedPools == {<<P_1s2>>, <<P_a7>>}

\* a caller invokes find_working_password
FindCall(file, passwords, email_body) ==
    /\ pc = "idle"
    /\ pc' = "find_called"
    /\ call' = [file |-> file, group_key |-> "", passwords |-> passwords,
                email_body |-> email_body]
    /\ UNCHANGED <<group_passwords, ret, prior, cached_by_success>>
    /\ UNCHANGED beside
    /\ UNCHANGED flows

\* find_working_password runs to its return
find_working_password ==
    /\ pc = "find_called"
    /\ \E run \in find_working_password_runs(call.file, call.passwords,
                                           call.email_body) :
          fwp' = [done |-> TRUE, args |-> call,
                  cache_before |-> group_passwords, found |-> run.found,
                  password |-> run.password, attempts |-> run.attempts]
    /\ pc' = "find_returned"
    /\ call' = NoCall
    /\ UNCHANGED <<group_passwords, ret, prior, cached_by_success, gv,
                   second>>
    /\ UNCHANGED flows

\* the caller has taken the password returned
FindResume ==
    /\ pc = "find_returned"
    /\ pc' = "idle"
    /\ fwp' = NoFwp
    /\ UNCHANGED <<group_passwords, call, ret, prior, cached_by_success, gv,
                   second>>
    /\ UNCHANGED flows

FindNext ==
    \/ \E file \in Docs, passwords \in Pools, email_body \in Bodies :
          FindCall(file, passwords, email_body)
    \/ find_working_password
    \/ FindResume
    \/ \E file \in SeedDocs, group_key \in Groups, passwords \in SeedPools :
          Call(file, group_key, passwords, B_last2)
    \/ process_pdf
    \/ Resume

FindSpec == Init /\ [][FindNext]_vars

(***************************************************************************)
(* Vocabulary of the properties of find_working_password.                  *)
(***************************************************************************)
\* the strings of a log of attempts, with where each comes from and whether
\* it unlocked the document (the readers are left out)
Tried(log) ==
    [i \in 1..Len(log) |->
        [kind |-> log[i].kind, idx |-> log[i].idx, pw |-> log[i].pw,
         ok |-> log[i].ok]]

\* the runs of process_pdf on the arguments of the call of
\* find_working_password, for a group without a cached password
ResolveRuns ==
    process_pdf_runs(fwp.args.file, "kw1", fwp.args.passwords,
                     fwp.args.email_body, EmptyCache)

\* the call of find_working_password was made on an encrypted document
FoundFor == fwp.done /\ fwp.args.file.kind = "enc"

\* the run r of process_pdf stored password P for its group
CachesPw(r, P) ==
    /\ Stored(r.out)
    /\ "kw1" \in DOMAIN r.cache
    /\ r.cache["kw1"] = P

(***************************************************************************)
(* C11 as stated.  On an encrypted document, find_working_password         *)
(* attempts the same sequence of strings as process_pdf does for a group   *)
(* without a cached password; it returns P exactly when that call of       *)
(* process_pdf succeeds and caches P, and None exactly when that call      *)
(* reports needs_password.                                                 *)
(***************************************************************************)
C11_FindAgreesWithResolve ==
    FoundFor =>
        \E r \in ResolveRuns :
            /\ Tried(r.out.attempts) = Tried(fwp.attempts)
            /\ fwp.found <=> (Success(r.out) /\ CachesPw(r, fwp.password))
            /\ ~fwp.found <=> NeedsPassword(r.out)

(***************************************************************************)
(* C11 as amended.  On an encrypted document the runs of                   *)
(* find_working_password and the runs of process_pdf for a group without a *)
(* cached password attempt the same sequences of strings (candidate, its   *)
(* variants, next candidate), with the same results.                       *)
(* find_working_password returns P exactly when process_pdf stores P for   *)
(* the group, and None exactly when process_pdf reports needs_password.    *)
(* The call of process_pdf that stores P returns success, unless writing   *)
(* the output raises: then it returns the hard error, for a document for   *)
(* which find_working_password returns P.                                  *)
(***************************************************************************)
C11_FindAgreesWithResolveUpToTheWriter ==
    /\ FoundFor =>
          \E r \in ResolveRuns :
              /\ Tried(r.out.attempts) = Tried(fwp.attempts)
              /\ fwp.found <=> CachesPw(r, fwp.password)
              /\ ~fwp.found <=> NeedsPassword(r.out)
              /\ fwp.found =>
                    IF fwp.args.file.write_fails
                    THEN HardError(r.out) /\ r.out.write_raised
                    ELSE Success(r.out)
    /\ (pc = "find_called" /\ call.file.kind = "enc") =>
          {Tried(r.out.attempts) :
              r \in process_pdf_runs(call.file, "kw1", call.passwords,
                                     call.email_body, EmptyCache)}
            = {Tried(f.attempts) :
                  f \in find_working_password_runs(call.file, call.passwords,
                                                   call.email_body)}

C11_Witness ==
    /\ FoundFor
    /\ fwp.found
    /\ Len(fwp.attempts) > 3
    /\ fwp.attempts[Len(fwp.attempts)].kind = "variant"
    /\ fwp.attempts[Len(fwp.attempts)].idx = 2
    /\ fwp.password # fwp.args.passwords[2]
    /\ \E r \in ResolveRuns :
          Tried(r.out.attempts) = Tried(fwp.attempts) /\ Success(r.out)

(***************************************************************************)
(* C12.  find_working_password neither reads nor writes the group cache:   *)
(* every string it attempts is an entry of the pool or a variant of one,   *)
(* never a cached password, and the cache after the call is the cache      *)
(* before it, for every group, whatever it returns.  process_pdf on a      *)
(* document that is not encrypted makes no attempt, with the cached        *)
(* password or any other, and leaves the cache as it found it.             *)
(***************************************************************************)
C12_CacheNeitherReadNorWritten ==
    /\ fwp.done =>
          /\ group_passwords = fwp.cache_before
          /\ \A i \in 1..Len(fwp.attempts) : fwp.attempts[i].kind # "cached"
          /\ \A i \in 1..Len(fwp.attempts) :
                fwp.attempts[i].pw \in
                    CandidateStrings(fwp.args.passwords[fwp.attempts[i].idx],
                                     fwp.args.email_body)
    /\ (ret.done /\ ret.args.file.kind = "plain") =>
          /\ group_passwords = ret.cache_before
          /\ Att = <<>>

C12_Witness ==
    /\ fwp.done
    /\ Cardinality(DOMAIN fwp.cache_before) = 2
    /\ fwp.found
    /\ \A g \in DOMAIN fwp.cache_before : fwp.cache_before[g] # fwp.password
    /\ \E g \in DOMAIN fwp.cache_before :
          Unlocks(fwp.args.file, fwp.cache_before[g])
    /\ group_passwords = fwp.cache_before

(***************************************************************************)
(* Readers.  Each attempt is logged with the number of the reader it ran   *)
(* on, in order of creation.                                               *)
(***************************************************************************)
\* in the log, no attempt runs on a reader that an earlier attempt of the
\* log failed on
FreshAfterFailure(log) ==
    \A i \in 1..Len(log) : \A j \in 1..(i - 1) :
        ~log[j].ok => log[j].reader # log[i].reader

(***************************************************************************)
(* C21 as stated.  In every password attempt made by process_pdf and by    *)
(* find_working_password, the reader used has never before been passed to  *)
(* a decrypt attempt that failed.                                          *)
(***************************************************************************)
C21_NoReaderReusedAfterFailure ==
    /\ ret.done => FreshAfterFailure(Att)
    /\ fwp.done => FreshAfterFailure(fwp.attempts)

(***************************************************************************)
(* The handler on documents of every kind, with pools whose entries have   *)
(* blank variants, and find_working_password beside it.                    *)
(***************************************************************************)
\* "ab": no digit, so that ''.join(filter(str.isdigit, "ab")) is ""
P_ab == <<"a", "b">>

\* a document with an owner password and an empty user password:
\* is_encrypted is True and decrypt("") reports success
TrialDocs == Docs \cup {Doc("enc_open_user", "enc", {<<>>, P_12}, {}, FALSE)}

TrialPools ==
    { <<>>, <<P_blank>>, <<P_1s2>>, <<P_a7>>, <<P_ab>>, <<P_a7, P_1s2>>,
      <<P_blank, P_1s2>>, <<P_ab, P_1s2>> }

TrialNext ==
    \/ \E file \in TrialDocs, group_key \in Groups, passwords \in TrialPools,
          email_body \in Bodies :
          Call(file, group_key, passwords, email_body)
    \/ process_pdf
    \/ Resume
    \/ clear_password_cache
    \/ \E file \in TrialDocs, passwords \in TrialPools, email_body \in Bodies :
          FindCall(file, passwords, email_body)
    \/ find_working_password
    \/ FindResume

TrialSpec == Init /\ [][TrialNext]_vars

(***************************************************************************)
(* The terminal states of the state machine of a document.                 *)
(***************************************************************************)
\* ERROR
T_Error(r) == HardError(r.out)

\* UNENCRYPTED_OK
T_UnencryptedOk(r) == Success(r.out) /\ r.args.file.kind = "plain"

\* UNLOCKED
T_Unlocked(r) ==
    /\ Success(r.out)
    /\ r.args.file.kind = "enc"
    /\ r.out.attempts # <<>>
    /\ r.out.attempts[Len(r.out.attempts)].ok

\* LOCKED
T_Locked(r) == NeedsPassword(r.out)

\* the terminal states the return r is in
TerminalStates(r) ==
    {t \in {"ERROR", "UNENCRYPTED_OK", "UNLOCKED", "LOCKED"} :
        \/ t = "ERROR" /\ T_Error(r)
        \/ t = "UNENCRYPTED_OK" /\ T_UnencryptedOk(r)
        \/ t = "UNLOCKED" /\ T_Unlocked(r)
        \/ t = "LOCKED" /\ T_Locked(r)}

\* the document of the call was parsed: UNPARSED was left for
\* UNENCRYPTED_OK or ENCRYPTED_NEEDS_TRIAL
Parsed(r) == r.args.file.kind \in {"plain", "enc"}

(***************************************************************************)
(* C22 as stated.  Every call ends in exactly one of ERROR,                *)
(* UNENCRYPTED_OK, UNLOCKED and LOCKED, and a call whose document was      *)
(* parsed and found encrypted ends in UNLOCKED or LOCKED, never in ERROR.  *)
(***************************************************************************)
C22_EncryptedEndsUnlockedOrLocked ==
    ret.done =>
        /\ Cardinality(TerminalStates(ret)) = 1
        /\ ret.args.file.kind = "enc" =>
              TerminalStates(ret) \subseteq {"UNLOCKED", "LOCKED"}

(***************************************************************************)
(* C22 as amended.  Every call ends in exactly one of ERROR,               *)
(* UNENCRYPTED_OK, UNLOCKED and LOCKED.  From UNPARSED, bytes that are     *)
(* empty or do not parse end in ERROR and a document without encryption    *)
(* ends in UNENCRYPTED_OK.  A document found encrypted ends in UNLOCKED or *)
(* LOCKED, or in ERROR: in ERROR only after an attempt has unlocked it and *)
(* writing the decrypted output has raised.                                *)
(***************************************************************************)
C22_TerminalStates ==
    ret.done =>
        /\ Cardinality(TerminalStates(ret)) = 1
        /\ ~Parsed(ret) => T_Error(ret)
        /\ ret.args.file.kind = "plain" => T_UnencryptedOk(ret)
        /\ ret.args.file.kind = "enc" =>
              \/ T_Unlocked(ret)
              \/ T_Locked(ret)
              \/ /\ T_Error(ret)
                 /\ ret.out.write_raised
                 /\ Att # <<>>
                 /\ LastAtt.ok
        /\ (ret.args.file.kind = "enc" /\ ~ret.args.file.write_fails) =>
              ~T_Error(ret)

C22_Witness ==
    /\ ret.done
    /\ ret.args.file.kind = "enc"
    /\ T_Error(ret)
    /\ LastAtt.kind = "variant"
    /\ LastAtt.ok
    /\ Len(Att) > 2

(***************************************************************************)
(* Vocabulary of the attempts of the call that has returned.               *)
(***************************************************************************)
\* decrypt() reports success for the string
DecryptAccepts(file, password) == password \in file.accept

\* after decrypt() has accepted the string, pages[0].extract_text() raises
PageUnreadable(file, password) ==
    password \in file.accept /\ password \in file.garble

\* no pool entry after entry k is a candidate (k = 0: no entry at all)
NoCandidateAfter(k) ==
    \A j \in (k + 1)..Len(ret.args.passwords) :
        ~NonBlank(ret.args.passwords[j])

(***************************************************************************)
(* C23.  An attempt of process_pdf on an encrypted document succeeds       *)
(* exactly when decrypt accepts the string and the text of the first page  *)
(* is then extracted without an exception.  An attempt whose decrypt is    *)
(* accepted but whose extraction raises is a failed attempt: the call does *)
(* not end with it unless nothing is left to try (it is then               *)
(* password-needed), the cache entry of the group is written only for the  *)
(* last attempt of the call and only if that one succeeded, and otherwise  *)
(* the cache is as the call found it.                                      *)
(***************************************************************************)
C23_SuccessNeedsReadableFirstPage ==
    Encr =>
        /\ \A i \in 1..Len(Att) :
              /\ Att[i].ok <=>
                    /\ DecryptAccepts(ret.args.file, Att[i].pw)
                    /\ ~PageUnreadable(ret.args.file, Att[i].pw)
              /\ Att[i].ok => i = Len(Att)
              /\ PageUnreadable(ret.args.file, Att[i].pw) =>
                    /\ ~Att[i].ok
                    /\ \/ i < Len(Att)
                       \/ /\ NeedsPassword(ret.out)
                          /\ NoCandidateAfter(Att[i].idx)
                          /\ Att[i].kind # "verbatim"
                          /\ Att[i].kind = "variant" =>
                                AllVariantsTried(Att[i].idx)
        /\ IF Stored(ret.out)
           THEN /\ ret.args.group_key \in DOMAIN group_passwords
                /\ group_passwords[ret.args.group_key] = LastAtt.pw
                /\ ~PageUnreadable(ret.args.file, LastAtt.pw)
           ELSE CacheUntouched

C23_Witness ==
    /\ Encr
    /\ Success(ret.out)
    /\ Stored(ret.out)
    /\ \E i \in 1..(Len(Att) - 1) :
          /\ PageUnreadable(ret.args.file, Att[i].pw)
          /\ Att[i].raised
          /\ Att[i].kind = "variant"
    /\ ~CachedBefore
    /\ group_passwords[ret.args.group_key] = LastAtt.pw

(***************************************************************************)
(* process_pdf_batch (src/app.py and src/mail_PDF_scraper/app.py).         *)
(*                                                                         *)
(* An attachment is the dict the Gmail handler builds: its message and     *)
(* attachment ids (here already joined into the file id), its file name,   *)
(* the date of its email, the email body, and the document its download    *)
(* yields.  The attachments of a list have distinct ids.  What the         *)
(* services do in one pass of the loop is the environment of the pass:     *)
(* download_attachment returns the bytes or None, upload_file returns True *)
(* or False, and the activity log (a Gmail profile request) returns or     *)
(* raises.                                                                 *)
(***************************************************************************)
DocById(id) == CHOOSE d \in Docs : d.id = id

Attachment(id, file, filename, email_date) ==
    [id |-> id, file |-> file, filename |-> filename,
     email_date |-> email_date, email_body |-> <<>>]

A_plain == Attachment("m1_a1", DocById("plain"), <<"s", ".", "p", "d", "f">>, "d1")

A_enc12 == Attachment("m2_a1", DocById("enc12"), <<"t", ".", "P", "D", "F">>, "d2")

A_enc_a7 == Attachment("m3_a1", DocById("enc_a7"), <<"u">>, "d2")

A_malformed == Attachment("m4_a1", DocById("malformed"), <<"v", ".", "p", "d", "f">>, "d3")

\* the lists of attachments of a batch
BatchLists ==
    { <<>>, <<A_enc12>>, <<A_malformed, A_plain>>, <<A_plain, A_enc12>>,
      <<A_enc12, A_plain>>, <<A_enc_a7, A_enc12>>, <<A_enc12, A_enc_a7>>,
      <<A_plain, A_enc_a7, A_enc12>>, <<A_enc12, A_malformed, A_enc_a7>>,
      <<A_malformed, A_enc_a7, A_plain>> }

\* the pools of passwords the user has entered
UserPools == {<<>>, <<P_12>>, <<P_a7, P_12>>}

\* the two applications of the repository
App_src == "src/app.py"

App_package == "src/mail_PDF_scraper/app.py"

Apps == {App_src, App_package}

\* what the services do during one pass of the loop
BatchEnvs ==
    [download_ok : BOOLEAN, upload_ok : BOOLEAN, log_raises : BOOLEAN]

\* original_name.split('.')[-1] if '.' in original_name else 'pdf'
RECURSIVE Extension(_)
Extension(original_name) ==
    IF ~Contains(original_name, <<".">>) THEN <<"p", "d", "f">>
    ELSE IF Contains(Tail(original_name), <<".">>)
         THEN Extension(Tail(original_name))
         ELSE Tail(original_name)

\* get_file_name: f"{email_date}.{extension}"
get_file_name(original_name, email_date) ==
    [date |-> email_date, extension |-> Extension(original_name)]

\* the loop goes on to the next attachment; what happened to this one is
\* kept as history
Continue(b, event) ==
    [b EXCEPT !.i = @ + 1,
              !.events = Append(@, [id |-> b.attachments[b.i].id,
                                    what |-> event])]

\* OnException with a fault: the exception leaves the loop
OnException_LeavesLoop(b, attachment, event) ==
    [b EXCEPT !.i = Len(b.attachments) + 1,
              !.error_files = Append(@, attachment.id),
              !.events = Append(@, [id |-> attachment.id, what |-> event])]

\* `except Exception as e`: the attachment is added to error_files and the
\* loop continues
OnException(b, attachment, event) ==
    Continue([b EXCEPT !.error_files = Append(@, attachment.id)], event)

\* the upload of the processed data and what follows it
Uploaded(b, attachment, env) ==
    LET up == [b EXCEPT
                  !.success_count = @ + 1,
                  !.processed_files = @ \cup {attachment.id},
                  !.processed_filenames =
                      Append(@, get_file_name(attachment.filename,
                                              attachment.email_date))]
    IN  IF ~env.upload_ok THEN Continue(b, "upload_failed")
        ELSE IF env.log_raises
             THEN OnException(up, attachment, "uploaded_then_raised")
             ELSE Continue(up, "uploaded")

\* the statements after process_pdf has returned `out`.  src/app.py unpacks
\* the tuple of four values into three names, which raises ValueError.
AfterResolve(b, attachment, out, env) ==
    IF b.app = App_src THEN OnException(b, attachment, "raised")
    ELSE IF out.needs_password
    THEN Continue([b EXCEPT !.password_required = Append(@, attachment.id)],
                  "needs_password")
    ELSE IF out.data = NoData
    THEN Continue([b EXCEPT !.error_files = Append(@, attachment.id)],
                  "error")
    ELSE Uploaded(b, attachment, env)

\* one pass of `for attachment in attachments`, from the cache `cache`:
\* the locals and the cache it leaves
Pass(b, cache, env) ==
    LET attachment == b.attachments[b.i] IN
    IF attachment.id \in b.processed_files
    THEN {[batch |-> Continue(b, "skipped"), cache |-> cache]}
    ELSE IF ~env.download_ok \/ attachment.file.kind = "empty"
    THEN {[batch |-> Continue(b, "no_data"), cache |-> cache]}
    ELSE { [batch |-> AfterResolve(b, attachment, run.out, env),
            cache |-> run.cache]
           : run \in process_pdf_runs(attachment.file, b.current_keyword,
                                      b.passwords, attachment.email_body,
                                      cache) }

\* the locals of process_pdf_batch when the loop begins
BatchStart(app, attachments, current_keyword, passwords, processed_files, flow) ==
    [state |-> "running", app |-> app, attachments |-> attachments,
     current_keyword |-> current_keyword, passwords |-> passwords, i |-> 1,
     success_count |-> 0, password_required |-> <<>>,
     processed_files |-> processed_files, processed_filenames |-> <<>>,
     error_files |-> <<>>, processed_at_call |-> processed_files,
     events |-> <<>>, flow |-> flow]

NoFlow == [pre_resolved |-> FALSE, pool |-> <<>>, working_password |-> <<>>]

\* a caller invokes process_pdf_batch
BatchCall(app, attachments, passwords, processed_files) ==
    /\ pc = "idle"
    /\ pc' = "batch"
    /\ batch' = BatchStart(app, attachments, "kw1", passwords,
                           processed_files, NoFlow)
    /\ UNCHANGED <<group_passwords, call, ret, prior, cached_by_success,
                   threads>>
    /\ UNCHANGED beside

\* one pass of the loop of process_pdf_batch
process_pdf_batch_pass ==
    /\ pc = "batch"
    /\ batch.i <= Len(batch.attachments)
    /\ \E env \in BatchEnvs :
          \E r \in Pass(batch, group_passwords, env) :
              /\ batch' = r.batch
              /\ group_passwords' = r.cache
    /\ UNCHANGED <<pc, call, ret, prior, cached_by_success, threads>>
    /\ UNCHANGED beside

\* the loop is over: process_pdf_batch returns its five values
process_pdf_batch_return ==
    /\ pc = "batch"
    /\ batch.i > Len(batch.attachments)
    /\ pc' = "batch_returned"
    /\ batch' = [batch EXCEPT !.state = "returned"]
    /\ UNCHANGED <<group_passwords, call, ret, prior, cached_by_success,
                   threads>>
    /\ UNCHANGED beside

\* the caller has taken the values returned
BatchResume ==
    /\ pc = "batch_returned"
    /\ pc' = "idle"
    /\ batch' = NoBatch
    /\ UNCHANGED <<group_passwords, call, ret, prior, cached_by_success,
                   threads>>
    /\ UNCHANGED beside

(***************************************************************************)
(* The group flow of main: the password of the group is looked for on the  *)
(* first attachment, then the batch of the group is processed.             *)
(***************************************************************************)
\* get_group_password(attachments, passwords): the values it can return
\* (None is <<>>); it passes no email body to find_working_password
get_group_password(attachments, passwords, download_ok) ==
    IF attachments = <<>> \/ passwords = <<>> THEN {<<>>}
    ELSE IF ~download_ok \/ attachments[1].file.kind = "empty" THEN {<<>>}
    ELSE { run.password
           : run \in find_working_password_runs(attachments[1].file,
                                                passwords, <<>>) }

\* the passwords argument of process_pdf_batch: src/app.py falls back to
\* the pool (line 820), process_keyword_batch of the package passes
\* `[password] if password else None` (line 224), which the batch turns
\* into []
BatchPasswords(app, working_password, passwords) ==
    IF working_password # <<>> THEN <<working_password>>
    ELSE IF app = App_src THEN passwords
    ELSE <<>>

\* main processes one group of selected attachments with the passwords the
\* user entered; the package creates the folders of the group first
ProcessGroup(app, attachments, passwords, processed_files) ==
    /\ pc = "idle"
    /\ attachments # <<>>
    /\ \E download_ok \in BOOLEAN, folder_ok \in BOOLEAN :
          \E working_password \in
                get_group_password(attachments, passwords, download_ok) :
             LET flow == [pre_resolved |-> TRUE, pool |-> passwords,
                          working_password |-> working_password]
                 start == BatchStart(app, attachments, "kw1",
                              BatchPasswords(app, working_password, passwords),
                              processed_files, flow)
             IN  IF app = App_package /\ ~folder_ok
                 THEN /\ batch' = [start EXCEPT !.state = "no_folder", !.i = 0]
                      /\ pc' = "batch_returned"
                 ELSE /\ batch' = start
                      /\ pc' = "batch"
    /\ UNCHANGED <<group_passwords, call, ret, prior, cached_by_success,
                   threads>>
    /\ UNCHANGED beside

\* the sets of file ids a caller passes as processed_files
ProcessedSets == {{}, {"m2_a1"}}

AppNext ==
    \/ \E app \in Apps, attachments \in BatchLists, passwords \in UserPools,
          processed_files \in ProcessedSets :
          BatchCall(app, attachments, passwords, processed_files)
    \/ \E app \in Apps, attachments \in BatchLists, passwords \in UserPools,
          processed_files \in ProcessedSets :
          ProcessGroup(app, attachments, passwords, processed_files)
    \/ process_pdf_batch_pass
    \/ process_pdf_batch_return
    \/ BatchResume
    \/ clear_password_cache

AppSpec == Init /\ [][AppNext]_vars

(***************************************************************************)
(* Vocabulary of the properties of the batch.                              *)
(***************************************************************************)
\* process_pdf_batch has returned
BatchReturned == batch.state = "returned"

\* the ids of a list of attachments, in order
Ids(attachments) == [k \in 1..Len(attachments) |-> attachments[k].id]

\* the ids of the attachments the loop has dealt with, in order
Visited == [k \in 1..Len(batch.events) |-> batch.events[k].id]

\* what happened to the k-th attachment
What(k) == batch.events[k].what

(***************************************************************************)
(* C24.  process_pdf_batch visits every attachment of its list, in order:  *)
(* while it runs, the attachments dealt with are those before the current  *)
(* one, and when it returns they are the whole list.  Whatever happens to  *)
(* an attachment (it was processed before, its download fails, it ends in  *)
(* the hard error or password-needed, its upload fails, an exception is    *)
(* raised) the loop goes on to the next one.                               *)
(***************************************************************************)
C24_BatchVisitsEveryAttachment ==
    /\ batch.state = "running" =>
          /\ batch.i \in 1..(Len(batch.attachments) + 1)
          /\ Visited = SubSeq(Ids(batch.attachments), 1, batch.i - 1)
    /\ BatchReturned => Visited = Ids(batch.attachments)

C24_Witness ==
    /\ BatchReturned
    /\ Len(batch.attachments) = 3
    /\ What(1) \in {"uploaded_then_raised", "raised"}
    /\ What(2) = "error"
    /\ \E e \in {"needs_password", "no_data"} : What(3) = e
    /\ batch.app = App_package

(***************************************************************************)
(* Two calls of process_pdf for the same group key, interleaved.  The      *)
(* handler has no lock: the calls share self.group_passwords and nothing   *)
(* else.  A call reads the dict at line 199 (`in`) and at line 200 (the    *)
(* entry) and writes it at line 229 or 248; each of these is one step, and *)
(* the decrypt attempts between them touch only the call's own reader.     *)
(***************************************************************************)
Threads == {1, 2}

ConcDocs ==
    {d \in Docs :
        d.id \in {"plain", "enc12", "enc_a7", "enc_two_keys", "enc_unwritable"}}

ConcPools == {<<>>, <<P_1s2>>, <<P_a7>>}

\* the caches the two calls can find: empty, or the entry an earlier call
\* of the group has stored
ConcCaches ==
    {EmptyCache, [g \in {"kw1"} |-> P_12], [g \in {"kw1"} |-> P_a7]}

\* a call of process_pdf(file_data, "kw1", passwords, email_body) that has
\* not run its first statement
ThreadAt(file, passwords, email_body) ==
    [at |-> "begin", file |-> file, passwords |-> passwords,
     email_body |-> email_body, group_password |-> <<>>,
     found |-> NotFound(<<>>, 1), log |-> <<>>,
     out |-> Return(NoData, FALSE, "", <<>>, FALSE)]

ConcInit ==
    /\ pc = "idle"
    /\ call = NoCall
    /\ ret = NoRet
    /\ prior = NoPrior
    /\ cached_by_success = {}
    /\ gv = NoGv
    /\ fwp = NoFwp
    /\ second = NoSecond
    /\ batch = NoBatch
    /\ group_passwords \in ConcCaches
    /\ \E f1 \in ConcDocs, f2 \in ConcDocs, p1 \in ConcPools,
          p2 \in ConcPools, b1 \in Bodies, b2 \in Bodies :
          threads = [started |-> TRUE,
                     t |-> <<ThreadAt(f1, p1, b1), ThreadAt(f2, p2, b2)>>,
                     writes |-> <<>>,
                     cache_at_start |-> group_passwords]

\* thread k is at `at` and becomes th; the cache becomes cache
Step(k, th, cache, writes) ==
    /\ threads' = [threads EXCEPT !.t[k] = th, !.writes = writes]
    /\ group_passwords' = cache
    /\ UNCHANGED <<pc, call, ret, prior, cached_by_success, batch>>
    /\ UNCHANGED beside

Done(th, out) == [th EXCEPT !.at = "done", !.out = out]

\* lines 181-196: the bytes are parsed; a document that is not encrypted
\* is returned
T_Begin(k) ==
    LET th == threads.t[k] IN
    /\ th.at = "begin"
    /\ Step(k,
            IF th.file.kind = "enc" THEN [th EXCEPT !.at = "check_cache"]
            ELSE Done(th, CHOOSE o \in
                         {r.out : r \in process_pdf_runs(th.file, "kw1",
                                            th.passwords, th.email_body,
                                            group_passwords)} : TRUE),
            group_passwords, threads.writes)

\* line 199: if group_key in self.group_passwords
T_CheckCache(k) ==
    LET th == threads.t[k] IN
    /\ th.at = "check_cache"
    /\ Step(k,
            IF "kw1" \in DOMAIN group_passwords
            THEN [th EXCEPT !.at = "read_cache"]
            ELSE [th EXCEPT !.at = "pool"],
            group_passwords, threads.writes)

\* line 200: group_password = self.group_passwords[group_key]
T_ReadCache(k) ==
    LET th == threads.t[k] IN
    /\ th.at = "read_cache"
    /\ "kw1" \in DOMAIN group_passwords
    /\ Step(k, [th EXCEPT !.at = "try_cached",
                          !.group_password = group_passwords["kw1"]],
            group_passwords, threads.writes)

\* lines 202-214: the cached password on the reader of line 186
T_TryCached(k) ==
    LET th == threads.t[k]
        a == Attempt("cached", 0, th.group_password, 1, th.file)
    IN  /\ th.at = "try_cached"
        /\ Step(k,
                IF a.ok THEN Done(th, WriteOutput(th.file, <<a>>))
                ELSE [th EXCEPT !.at = "pool", !.log = <<a>>],
                group_passwords, threads.writes)

\* lines 217-227 and 243-246: the pool is walked until a string unlocks
\* the document
T_Pool(k) ==
    LET th == threads.t[k] IN
    /\ th.at = "pool"
    /\ IF th.passwords = <<>>
       THEN Step(k, Done(th, PasswordRequired(th.log)), group_passwords,
                 threads.writes)
       ELSE \E o \in PoolScan(th.file, th.passwords,
                              FormatHint[th.email_body], 1, th.log, 1) :
               Step(k,
                    IF o.found THEN [th EXCEPT !.at = "store", !.found = o]
                    ELSE Done(th, NotDecrypted(o.log)),
                    group_passwords, threads.writes)

\* lines 229 and 248: self.group_passwords[group_key] = the string
T_Store(k) ==
    LET th == threads.t[k] IN
    /\ th.at = "store"
    /\ Step(k, [th EXCEPT !.at = "write_output"],
            Store(group_passwords, "kw1", th.found.pw),
            Append(threads.writes, [by |-> k, pw |-> th.found.pw]))

\* lines 230-240 and 249-259: the output is written and returned
T_WriteOutput(k) ==
    LET th == threads.t[k] IN
    /\ th.at = "write_output"
    /\ Step(k, Done(th, WriteOutput(th.file, th.found.log)),
            group_passwords, threads.writes)

ConcNext ==
    \E k \in Threads :
        \/ T_Begin(k)
        \/ T_CheckCache(k)
        \/ T_ReadCache(k)
        \/ T_TryCached(k)
        \/ T_Pool(k)
        \/ T_Store(k)
        \/ T_WriteOutput(k)

ConcSpec == ConcInit /\ [][ConcNext]_vars

\* both calls have returned
BothDone == threads.started /\ \A k \in Threads : threads.t[k].at = "done"

\* the last write of the cache by one of the two calls
LastWrite == threads.writes[Len(threads.writes)]

(***************************************************************************)
(* C25.  For two interleaved calls of process_pdf with the same group key, *)
(* the cache is a last-write-wins map.  At every moment the entry of the   *)
(* group is the string of the latest write by one of the two calls, if     *)
(* there is one, and that string unlocked the document of the call that    *)
(* wrote it; as long as neither call has written, the cache is as the      *)
(* calls found it.  So it is after both calls have returned.               *)
(***************************************************************************)
C25_LastWriteWins ==
    threads.started =>
        IF threads.writes = <<>>
        THEN group_passwords = threads.cache_at_start
        ELSE /\ DOMAIN group_passwords = {"kw1"}
             /\ group_passwords["kw1"] = LastWrite.pw
             /\ Unlocks(threads.t[LastWrite.by].file, LastWrite.pw)
             /\ \A i \in 1..Len(threads.writes) :
                   threads.t[threads.writes[i].by].at
                       \in {"write_output", "done"}

C25_Witness ==
    /\ BothDone
    /\ Len(threads.writes) = 2
    /\ threads.writes[1].by = 2
    /\ threads.writes[2].by = 1
    /\ threads.writes[1].pw # threads.writes[2].pw
    /\ threads.t[1].log # <<>>
    /\ threads.t[1].log[1].pw # threads.writes[1].pw
    /\ Success(threads.t[1].out)
    /\ Success(threads.t[2].out)

(***************************************************************************)
(* C26.  Every value of the group password cache is a string that unlocked *)
(* a document processed under its group key since the last reset.  The     *)
(* entry of a group appears or changes only in a step of a call of         *)
(* process_pdf for that group, on an encrypted document, and the string it *)
(* becomes is one that the call attempted, for which decrypt succeeded and *)
(* the first page was readable.  A reset leaves no entry (C4), so every    *)
(* entry of every reachable state was put there, since the last reset, by  *)
(* a call whose document it unlocked, and a string that was only attempted *)
(* and failed is never stored.                                             *)
(***************************************************************************)
C26_CacheHoldsOnlyUnlockingStrings ==
    /\ [](\A g \in DOMAIN group_passwords :
             \E file \in TrialDocs : Unlocks(file, group_passwords[g]))
    /\ [][\A g \in DOMAIN group_passwords' :
                (g \notin DOMAIN group_passwords
                 \/ group_passwords'[g] # group_passwords[g]) =>
                    /\ pc = "called"
                    /\ g = call.group_key
                    /\ call.file.kind = "enc"
                    /\ DecryptAccepts(call.file, group_passwords'[g])
                    /\ ~PageUnreadable(call.file, group_passwords'[g])
                    /\ \E i \in 1..Len(ret'.out.attempts) :
                          /\ ret'.out.attempts[i].pw = group_passwords'[g]
                          /\ ret'.out.attempts[i].ok]_vars

C26_Witness ==
    /\ ret.done
    /\ Stored(ret.out)
    /\ DOMAIN group_passwords = Groups
    /\ \E i \in 1..(Len(Att) - 1) :
          /\ ~Att[i].ok
          /\ DecryptAccepts(ret.args.file, Att[i].pw)
    /\ CachedBefore
    /\ group_passwords[ret.args.group_key] # CachedPw
    /\ ~Unlocks(ret.args.file, CachedPw)

(***************************************************************************)
(* C27 as stated.  Whenever a call of process_pdf changes the cache entry  *)
(* of its group, that call returns success; a call that ends in the hard   *)
(* error or in password-needed leaves the cache exactly as it found it.    *)
(***************************************************************************)
C27_CacheWrittenOnlyBySuccess ==
    ret.done =>
        /\ ~CacheUntouched => Success(ret.out)
        /\ (HardError(ret.out) \/ NeedsPassword(ret.out)) => CacheUntouched

(***************************************************************************)
(* C27 as amended.  A call of process_pdf changes at most the cache entry  *)
(* of its own group, and only when a pool candidate or a variant unlocked  *)
(* the document: the entry is then that string.  Such a call returns       *)
(* success, unless writing the decrypted output raises: the call then      *)
(* returns the hard error and the entry it stored stays.  A call that ends *)
(* password-needed, and a call that ends in the hard error for bytes that  *)
(* are empty or do not parse, leave the cache exactly as they found it.    *)
(***************************************************************************)
C27_CacheWrittenOnlyAfterUnlock ==
    ret.done =>
        /\ OtherGroupsUntouched
        /\ ~CacheUntouched =>
              /\ Stored(ret.out)
              /\ group_passwords[ret.args.group_key] = LastAtt.pw
              /\ Success(ret.out)
                 \/ (HardError(ret.out) /\ ret.out.write_raised
                     /\ ret.args.file.write_fails)
        /\ NeedsPassword(ret.out) => CacheUntouched
        /\ (HardError(ret.out) /\ ~ret.out.write_raised) => CacheUntouched
        /\ (HardError(ret.out) /\ ret.out.write_raised /\ Stored(ret.out)) =>
              /\ ret.args.group_key \in DOMAIN group_passwords
              /\ group_passwords[ret.args.group_key] = LastAtt.pw

C27_Witness ==
    /\ ret.done
    /\ HardError(ret.out)
    /\ ret.out.write_raised
    /\ ~CacheUntouched
    /\ ~CachedBefore
    /\ LastAtt.kind = "variant"
    /\ group_passwords[ret.args.group_key] = LastAtt.pw

(***************************************************************************)
(* C28 as stated.  No empty or whitespace-only string is ever attempted as *)
(* a password, by process_pdf or by find_working_password, or stored in    *)
(* the cache: blank pool entries are skipped and every variant attempted   *)
(* is non-blank.                                                           *)
(***************************************************************************)
C28_NoBlankStringAttemptedOrStored ==
    /\ ret.done => \A i \in 1..Len(Att) : NonBlank(Att[i].pw)
    /\ fwp.done =>
          \A i \in 1..Len(fwp.attempts) : NonBlank(fwp.attempts[i].pw)
    /\ \A g \in DOMAIN group_passwords : NonBlank(group_passwords[g])

\* the sequence lists the file id
Listed(id, list) == \E k \in 1..Len(list) : list[k] = id

\* how many of the four accounts of the returned values hold attachment a:
\* skipped as processed before, uploaded by this call, listed in
\* password_required, listed in error_files
Accounts(a) ==
    {n \in {"skipped", "uploaded", "password_required", "error_files"} :
        \/ n = "skipped" /\ a.id \in batch.processed_at_call
        \/ n = "uploaded" /\ a.id \in batch.processed_files
                          /\ a.id \notin batch.processed_at_call
        \/ n = "password_required" /\ Listed(a.id, batch.password_required)
        \/ n = "error_files" /\ Listed(a.id, batch.error_files)}

(***************************************************************************)
(* C29 as stated.  When process_pdf_batch returns, every attachment of its *)
(* list is accounted for exactly once: skipped because its id was in       *)
(* processed_files, or uploaded (counted in success_count, id added to     *)
(* processed_files, name in processed_filenames), or listed in             *)
(* password_required, or listed in error_files; and an id is added to      *)
(* processed_files only after its upload succeeded.                        *)
(***************************************************************************)
C29_EveryAttachmentAccountedOnce ==
    BatchReturned =>
        /\ \A k \in 1..Len(batch.attachments) :
              /\ Cardinality(Accounts(batch.attachments[k])) = 1
              /\ batch.attachments[k].id
                     \in batch.processed_files \ batch.processed_at_call =>
                    /\ What(k) \in {"uploaded", "uploaded_then_raised"}
                    /\ \E n \in 1..Len(batch.processed_filenames) :
                          batch.processed_filenames[n] =
                              get_file_name(batch.attachments[k].filename,
                                            batch.attachments[k].email_date)
        /\ batch.success_count =
              Cardinality(batch.processed_files \ batch.processed_at_call)
        /\ batch.success_count = Len(batch.processed_filenames)

\* the k-th attachment of the group is encrypted and a password of the pool
\* the user entered unlocks it
PoolPasswordUnlocks(k) ==
    /\ batch.attachments[k].file.kind = "enc"
    /\ \E n \in 1..Len(batch.flow.pool) :
          Unlocks(batch.attachments[k].file, batch.flow.pool[n])

(***************************************************************************)
(* C30 as stated.  In the group flow (the group's password is looked for   *)
(* on the first attachment, then the batch of the group is processed),     *)
(* every selected encrypted attachment that some password of the pool the  *)
(* user entered unlocks is decrypted and uploaded, not reported as         *)
(* password-required, whatever the first attachment of the group is.       *)
(* Attachments that were processed before, that could not be downloaded,   *)
(* whose upload failed, or for which the pass raised before the result of  *)
(* process_pdf was looked at, are left aside.                              *)
(***************************************************************************)
C30_GroupFlowUnlocksWhatThePoolUnlocks ==
    (BatchReturned /\ batch.flow.pre_resolved) =>
        \A k \in 1..Len(batch.attachments) :
            (/\ PoolPasswordUnlocks(k)
             /\ What(k) \notin {"skipped", "no_data", "upload_failed",
                                 "raised"}) =>
                /\ ~Listed(batch.attachments[k].id, batch.password_required)
                /\ What(k) \in {"uploaded", "uploaded_then_raised"}
====
